---- MODULE Spec2Model ----
(***************************************************************************)
(* Sonata neural voices for NVDA: the speech-sequence compiler of the      *)
(* synth driver (SynthDriver.speak), the asyncio scheduler that runs a     *)
(* compiled plan (_process_speech_sequence and the task classes), and the  *)
(* supervisor of the external gRPC engine process (grpc_client).           *)
(*                                                                         *)
(* Strings the code inspects character by character (texts, language       *)
(* codes) are sequences of one-character strings.  An optional value is    *)
(* None (the empty tuple) or Some(v) (a one-element tuple).                *)
(***************************************************************************)
EXTENDS Integers, Sequences, FiniteSets, TLC

VARIABLES
    heap,               \* the SpeechOptions objects, by object identity
    live,               \* tts.speech_options: the identity of the live SpeechOptions
    player,             \* SynthDriver._player: the active sink (by sample rate)
    cpc,                \* where the caller thread stands inside speak()
    in_seq,             \* speak()'s argument speechSequence
    speech_seq,         \* the local speech_seq of _fast_prepare_and_run_speech_task
    old_speech_options, \* the copy create_synthesis_context() keeps for the restore
    outcome,            \* history: how the last speak() ended ("none" before the first)
    entry_options,      \* history: the value of the live options when speak() was entered
    last_rate,          \* history: the rate the last returned speak() spoke at after a RateCommand
    call,               \* the driver method the caller thread is inside: "speak" or "cancel"
    nplans,             \* the number of plans handed to the event loop so far
    current_task,       \* SynthDriver._current_task (0 is None)
    tasks,              \* the asyncio tasks running _process_speech_sequence, one per plan
    ready,              \* the event loop's queue of callbacks that are ready to run
    pool,               \* the work items of THREADED_EXECUTOR, oldest first
    sink,               \* for each WavePlayer, the owners of the chunks fed and not yet played
    reported,           \* the notifications sent to the host (synthIndexReached, synthDoneSpeaking)
    stopped,            \* history: the tasks cancel() has cancelled and stopped the sink for
    late_feed,          \* history: the tasks a chunk of which reached the sink after that stop
    last_op,            \* history: for each running task, the last engine, sink or host operation
    gport,              \* grpc_client.SONATA_GRPC_SERVER_PORT (0 is None)
    gprocess,           \* grpc_client.GRPC_SERVER_PROCESS (0 is None)
    globalVars,         \* the attributes set on NVDA's globalVars module: None when absent
    processes,          \* the engine processes launched so far: their port and whether they run
    started,            \* history: the start_grpc_server() calls since the last terminate()
    channel,            \* grpc_client.CHANNEL: the port it connects to (0 is None)
    aio,                \* aio.THREADED_EXECUTOR and aio.ASYNCIO_LOOP_THREAD: whether they are set
    terminated,         \* history: the terminate() calls since the last other call of the supervisor
    silence,            \* a SilenceProvider and the audio it generated (None without one)
    closed,             \* the WavePlayers (by sample rate) that terminate() has closed
    driver,             \* the SynthDriver object: "unloaded" before __init__, then "available"
                        \* or, when __init__ returned early, "unavailable"; "blocked" while
                        \* __init__ waits for the engine without an end
    voice_dirs,         \* the directories under SONATA_VOICES_DIR: absent, complete or without *.json
    voices,             \* the SonataVoice objects of SynthDriver.voices, sorted by key
    synth,              \* the voice settings of the SynthDriver: tts, _players, _player, __voice
    wave_players,       \* the WavePlayer objects created so far: their rate and whether open
    last_set,           \* history: the last setter called, what it asked for and how it ended
    rateBoost,          \* SynthDriver._rateBoost
    rate_op,            \* history: the last call of the rate or rate boost property and the one before
    utterance,          \* a SpeechTask, and what its call sent to the engine and fed to its player
    bgQueue,            \* piper driver: SynthDriver._bgQueue, the tasks put and not yet taken
    unfinished_tasks,   \* piper driver: queue.Queue.unfinished_tasks, what join() waits for
    silence_event,      \* piper driver: SynthDriver._silence_event
    bgThread,           \* piper driver: where BgThread.run is, and the task it runs
    mainThread,         \* piper driver: where the caller of speak(), cancel(), terminate() is
    piper_players,      \* piper driver: SynthDriver._players, and the audio each sink holds
    piper_player,       \* piper driver: SynthDriver._player, the active sink (by sample rate)
    cancels,            \* history: the calls of cancel() so far
    speaks,             \* history: the calls of speak() so far
    late_fate           \* history: what became of chunks fed after cancel() stopped the sink

cvars == <<heap, live, player, cpc, in_seq, speech_seq, old_speech_options,
           outcome, entry_options, last_rate>>
svars == <<call, nplans, current_task, tasks, ready, pool, sink, reported,
           stopped, late_feed, last_op>>
gvars == <<gport, gprocess, globalVars, processes, started, channel, aio, terminated>>
dvars == <<silence, closed, driver>>
qvars == <<bgQueue, unfinished_tasks, silence_event, bgThread, mainThread,
           piper_players, piper_player, cancels, speaks, late_fate>>
rvars == <<voice_dirs, voices, synth, wave_players, last_set, rateBoost, rate_op, utterance, qvars>>
vars == <<cvars, svars, gvars, dvars, rvars>>

----------------------------------------------------------------------------
(* Bounds of the model *)

\* longest directive sequence handed to speak() when only compilation is studied
MaxLen == 3

\* the longest break, in milliseconds, when the generated silence is studied
MaxBreak == 700

----------------------------------------------------------------------------
(* Values *)

None == <<>>
Some(v) == <<v>>

DEFAULT_RATE == 50
DEFAULT_VOLUME == 100
DEFAULT_PITCH == 50

NL == "\n"

\* language codes as NVDA's normalizeLanguage returns them
en_US == <<"e", "n", "_", "U", "S">>
fr_FR == <<"f", "r", "_", "F", "R">>
de_DE == <<"d", "e", "_", "D", "E">>

\* SonataTextToSpeechSystem.voices: the installed voices, sorted by key.  The
\* sample rate of a voice is what the engine answered to LoadVoice.
Voices ==
    << [key |-> "en_US-amy-medium", language |-> en_US, sample_rate |-> 22050],
       [key |-> "fr_FR-siwis-low",  language |-> fr_FR, sample_rate |-> 16000] >>

\* texts of the text directives
Hello_ == <<"H", "e", "l", "l", "o", " ">>
world == <<"w", "o", "r", "l", "d">>
Empty == <<>>

(* The directives of a speech sequence: str items and speech commands *)
Str(t) == [type |-> "str", text |-> t]
IndexCommand(i) == [type |-> "IndexCommand", index |-> i]
BreakCommand(t) == [type |-> "BreakCommand", time |-> t]
LangChangeCommand(l) == [type |-> "LangChangeCommand", lang |-> l, isDefault |-> l = None]
RateCommand(v) == [type |-> "RateCommand", newValue |-> v]
VolumeCommand(v) == [type |-> "VolumeCommand", newValue |-> v]
PitchCommand(v) == [type |-> "PitchCommand", newValue |-> v]

Directives ==
    { Str(Hello_), Str(world), Str(Empty),
      IndexCommand(0), IndexCommand(1),
      BreakCommand(300),
      RateCommand(80), VolumeCommand(60), PitchCommand(70),
      LangChangeCommand(Some(fr_FR)), LangChangeCommand(Some(de_DE)),
      LangChangeCommand(None) }

SeqsUpTo(S, n) == UNION { [1..k -> S] : k \in 0..n }

AllSeqs == SeqsUpTo(Directives, MaxLen)

----------------------------------------------------------------------------
(* Helpers on sequences and strings *)

RECURSIVE join(_, _)
\* sep.join(list) for a list of strings
join(sep, list) ==
    IF list = <<>> THEN <<>>
    ELSE IF Len(list) = 1 THEN list[1]
    ELSE list[1] \o sep \o join(sep, Tail(list))

\* any(list) for a list of strings: some string is not empty
any_text(list) == \E i \in DOMAIN list : list[i] # <<>>

\* any(list) for a list of integers: some integer is not zero
any_index(list) == \E i \in DOMAIN list : list[i] # 0

startswith(s, prefix) ==
    /\ Len(prefix) <= Len(s)
    /\ SubSeq(s, 1, Len(prefix)) = prefix

\* s.split(sep)[0]
split_first(s, sep) ==
    IF \E i \in DOMAIN s : s[i] = sep
    THEN LET i == CHOOSE i \in DOMAIN s : s[i] = sep /\ \A j \in 1..(i - 1) : s[j] # sep
         IN SubSeq(s, 1, i - 1)
    ELSE s

----------------------------------------------------------------------------
(* SpeechOptions and SonataTextToSpeechSystem (tts_system.py) *)

SpeechOptions(voice) ==
    [voice |-> voice, rate |-> None, volume |-> None, pitch |-> None,
     sentence_silence_ms |-> None]

\* a mutant of copy: the "copy" is the object itself
copy_alias(h, id) == [heap |-> h, id |-> id]

\* SpeechOptions.copy: copy.copy(self), a new object with the same field values
copy(h, id) == [heap |-> Append(h, h[id]), id |-> Len(h) + 1]

\* the rate / volume / pitch getters fall back on the defaults
get_rate(o) == IF o.rate = None THEN DEFAULT_RATE ELSE o.rate[1]
get_volume(o) == IF o.volume = None THEN DEFAULT_VOLUME ELSE o.volume[1]
get_pitch(o) == IF o.pitch = None THEN DEFAULT_PITCH ELSE o.pitch[1]

\* the rate / volume / pitch setters write the live object in place
set_rate(h, lv, v) == [h EXCEPT ![lv].rate = Some(v)]
set_volume(h, lv, v) == [h EXCEPT ![lv].volume = Some(v)]
set_pitch(h, lv, v) == [h EXCEPT ![lv].pitch = Some(v)]

FirstOf(S) == CHOOSE i \in S : \A j \in S : i <= j

\* the language setter: the first voice of that language, else the first voice
\* whose language starts with the language code and a dash, else VoiceNotFoundError
set_language(h, lv, lang) ==
    IF Voices[h[lv].voice].language = lang
    THEN [heap |-> h, raised |-> FALSE]
    ELSE LET lang_code == split_first(lang, "-") \o <<"-">>
             exact == { i \in DOMAIN Voices : Voices[i].language = lang }
             possible_voices ==
                 { i \in DOMAIN Voices : startswith(Voices[i].language, lang_code) }
         IN IF exact # {}
            THEN [heap |-> [h EXCEPT ![lv].voice = FirstOf(exact)], raised |-> FALSE]
            ELSE IF possible_voices # {}
            THEN [heap |-> [h EXCEPT ![lv].voice = FirstOf(possible_voices)],
                  raised |-> FALSE]
            ELSE [heap |-> h, raised |-> TRUE]

\* SpeechProvider(text, self.speech_options.copy())
create_speech_provider(h, lv, text) ==
    LET c == copy(h, lv)
    IN [heap |-> c.heap, provider |-> [text |-> text, speech_options |-> c.id]]

\* SilenceProvider(time_ms, self.speech_options.voice.sample_rate)
create_break_provider(h, lv, time_ms) ==
    [time_ms |-> time_ms, sample_rate |-> Voices[h[lv].voice].sample_rate]

----------------------------------------------------------------------------
(* SilenceProvider.generate_audio (tts_system.py):                         *)
(*     num_samples = int((self.time_ms / 1000.0) * self.sample_rate)       *)
(* in Python's floats, IEEE-754 binary64.  A float is a significand, a     *)
(* sequence of bits with the most significant bit first, and the exponent  *)
(* e of its last bit: its value is value(m) * 2^e.                         *)

\* the significand of a binary64 float
MantissaBits == 53

RECURSIVE bits(_)
bits(n) == IF n = 0 THEN <<>> ELSE Append(bits(n \div 2), n % 2)

RECURSIVE value(_)
value(b) == IF b = <<>> THEN 0 ELSE 2 * value(SubSeq(b, 1, Len(b) - 1)) + b[Len(b)]

zeros(k) == [i \in 1..k |-> 0]

\* b without its leading zeros
strip0(b) ==
    IF \A i \in DOMAIN b : b[i] = 0 THEN <<>>
    ELSE SubSeq(b, FirstOf({ i \in DOMAIN b : b[i] = 1 }), Len(b))

\* b + 1
inc(b) ==
    IF \A i \in DOMAIN b : b[i] = 1
    THEN <<1>> \o zeros(Len(b))
    ELSE LET k == CHOOSE k \in DOMAIN b : b[k] = 0 /\ \A j \in DOMAIN b : j > k => b[j] = 1
         IN [i \in DOMAIN b |-> IF i < k THEN b[i] ELSE IF i = k THEN 1 ELSE 0]

\* schoolbook division of the bits b by the small integer d, rem carried in
RECURSIVE long_div(_, _, _)
long_div(b, d, rem) ==
    IF b = <<>> THEN [q |-> <<>>, rem |-> rem]
    ELSE IF Len(b) = 1
    THEN LET r == 2 * rem + b[1]
         IN [q |-> << IF r >= d THEN 1 ELSE 0 >>, rem |-> IF r >= d THEN r - d ELSE r]
    ELSE LET h == Len(b) \div 2
             hi == long_div(SubSeq(b, 1, h), d, rem)
             lo == long_div(SubSeq(b, h + 1, Len(b)), d, hi.rem)
         IN [q |-> hi.q \o lo.q, rem |-> lo.rem]

reverse(b) == [i \in 1..Len(b) |-> b[Len(b) + 1 - i]]

\* the bits b, the least significant first, times the small integer r plus carry
RECURSIVE mul_carry(_, _, _)
mul_carry(b, r, carry) ==
    IF b = <<>> THEN [out |-> <<>>, carry |-> carry]
    ELSE IF Len(b) = 1
    THEN LET v == b[1] * r + carry
         IN [out |-> << v % 2 >>, carry |-> v \div 2]
    ELSE LET h == Len(b) \div 2
             lo == mul_carry(SubSeq(b, 1, h), r, carry)
             hi == mul_carry(SubSeq(b, h + 1, Len(b)), r, lo.carry)
         IN [out |-> lo.out \o hi.out, carry |-> hi.carry]

mul_small(b, r) ==
    LET p == mul_carry(reverse(b), r, 0)
    IN bits(p.carry) \o reverse(p.out)

\* round to nearest, ties to even: b are the leading bits of the exact result, the
\* last of them of weight 2^e, and sticky says that nonzero bits follow them
round_sig(b, sticky, e) ==
    IF Len(b) <= MantissaBits
    THEN [m |-> b, e |-> e]
    ELSE LET keep == SubSeq(b, 1, MantissaBits)
             rest == SubSeq(b, MantissaBits + 1, Len(b))
             more == sticky \/ \E i \in 2..Len(rest) : rest[i] = 1
             up == rest[1] = 1 /\ (more \/ keep[MantissaBits] = 1)
         IN [m |-> IF up THEN inc(keep) ELSE keep, e |-> e + Len(rest)]

\* time_ms / 1000.0: the quotient is computed to 64 binary places and rounded
float_div(n, d) ==
    LET r == long_div(bits(n) \o zeros(64), d, 0)
    IN round_sig(strip0(r.q), r.rem # 0, 0 - 64)

\* x * sample_rate
float_mul(x, r) == round_sig(strip0(mul_small(x.m, r)), FALSE, x.e)

\* int(x), for x >= 0: the fraction is cut off
float_int(x) ==
    IF x.e >= 0 THEN value(x.m \o zeros(x.e))
    ELSE IF Len(x.m) + x.e <= 0 THEN 0
    ELSE value(SubSeq(x.m, 1, Len(x.m) + x.e))

num_samples(time_ms, sample_rate) ==
    float_int(float_mul(float_div(time_ms, 1000), sample_rate))

\* bytes(num_samples * 2): that many zero bytes
generate_audio(task) == [zero_bytes |-> num_samples(task.time_ms, task.sample_rate) * 2]

----------------------------------------------------------------------------
(* The tasks of a plan (sonata_neural_voices/__init__.py) *)

SpeechTask(task, p) == [kind |-> "SpeechTask", task |-> task, player |-> p]
BreakTask(task, p) == [kind |-> "BreakTask", task |-> task, player |-> p]

\* a mutant of IndexReachedTask: the markers are kept last first
IndexReachedTask_reversed(index_list) ==
    [kind |-> "IndexReachedTask", index_list |-> reverse(index_list)]

IndexReachedTask(index_list) == [kind |-> "IndexReachedTask", index_list |-> index_list]

DoneSpeakingTask(p) == [kind |-> "DoneSpeakingTask", player |-> p]

\* a mutant of text_separator: the texts are joined without a separator
text_separator_empty == <<>>

\* what joins the texts of one run: _fast_prepare_and_run_speech_task joins with a
\* newline (the older _prepare_and_run_speech_task, which speak() does not call,
\* joined with the empty string)
text_separator == <<NL>>

\* if any(text_list): append a SpeechTask of the joined texts and clear the list
flush_text(c, p) ==
    IF any_text(c.text_list)
    THEN LET r == create_speech_provider(c.heap, c.live, join(text_separator, c.text_list))
         IN [c EXCEPT !.heap = r.heap,
                      !.speech_seq = Append(@, SpeechTask(r.provider, p)),
                      !.text_list = <<>>]
    ELSE c

\* one turn of the loop over speechSequence
compile_item(c, item, p, default_lang) ==
    IF c.raised THEN c
    ELSE IF item.type = "IndexCommand"
    THEN [c EXCEPT !.index_command_list = Append(@, item.index)]
    ELSE IF item.type = "str"
    THEN [c EXCEPT !.text_list = Append(@, item.text)]
    ELSE LET f == flush_text(c, p)
         IN CASE item.type = "BreakCommand" ->
                  [f EXCEPT !.speech_seq =
                      Append(@, BreakTask(create_break_provider(f.heap, f.live, item.time), p))]
              [] item.type = "LangChangeCommand" ->
                  LET r == set_language(f.heap, f.live,
                                        IF item.isDefault THEN default_lang ELSE item.lang[1])
                  IN [f EXCEPT !.heap = r.heap, !.raised = r.raised]
              [] item.type = "RateCommand" ->
                  [f EXCEPT !.heap = set_rate(f.heap, f.live, item.newValue)]
              [] item.type = "VolumeCommand" ->
                  [f EXCEPT !.heap = set_volume(f.heap, f.live, item.newValue)]
              [] item.type = "PitchCommand" ->
                  [f EXCEPT !.heap = set_pitch(f.heap, f.live, item.newValue)]

RECURSIVE compile_loop(_, _, _, _)
compile_loop(c, items, p, default_lang) ==
    IF items = <<>> THEN c
    ELSE compile_loop(compile_item(c, Head(items), p, default_lang), Tail(items),
                      p, default_lang)

\* a mutant of flush_index: the IndexReachedTask is appended whatever the list holds
flush_index_always(c) ==
    [c EXCEPT !.speech_seq = Append(@, IndexReachedTask(c.index_command_list))]

\* the marker list becomes one IndexReachedTask at the end of the plan, if any(list)
flush_index(c) ==
    IF any_index(c.index_command_list)
    THEN [c EXCEPT !.speech_seq = Append(@, IndexReachedTask(c.index_command_list))]
    ELSE c

\* _fast_prepare_and_run_speech_task up to the hand-over of speech_seq to
\* process_speech: the plan, the heap it leaves, and whether it raised
prepare(h, lv, p, speechSequence) ==
    LET c0 == [heap |-> h, live |-> lv, speech_seq |-> <<>>, text_list |-> <<>>,
               index_command_list |-> <<>>, raised |-> FALSE]
        c1 == compile_loop(c0, speechSequence, p, Voices[h[lv].voice].language)
    IN IF c1.raised THEN c1
       ELSE LET c2 == flush_index(flush_text(c1, p))
            IN [c2 EXCEPT !.speech_seq = Append(@, DoneSpeakingTask(p))]

----------------------------------------------------------------------------
(* The scheduler: asyncio tasks, the event loop, the worker pool, the sinks *)

\* plans handed to the event loop in one run
MaxPlans == 2
\* most audio chunks the engine streams for one utterance
MaxChunks == 2
\* max_workers of THREADED_EXECUTOR (os.cpu_count() // 2)
NumWorkers == 2
\* most task.cancel callbacks that calls of cancel() leave waiting on the loop
MaxPending == 1

Tasks == 1..MaxPlans

\* SynthDriver._players, keyed by sample rate
SampleRates == { Voices[v].sample_rate : v \in DOMAIN Voices }

IGNORED_PUNCS == {",", "(", ")", "{", "}", "[", "]", "`", "\"", "'"}
Whitespace == {" ", NL, "\t"}
Comma == <<",">>

\* str.strip()
strip(s) ==
    LET I == { n \in DOMAIN s : s[n] \notin Whitespace }
    IN  IF I = {} THEN <<>>
        ELSE SubSeq(s, CHOOSE a \in I : \A b \in I : a <= b,
                       CHOOSE a \in I : \A b \in I : b <= a)

\* SonataVoice.synthesize yields nothing, and sends nothing to the engine, for such a text
ignorable(text) ==
    /\ Len(text) < 10
    /\ \A n \in DOMAIN strip(text) : strip(text)[n] \in IGNORED_PUNCS

\* a task that was not created yet
NoTask ==
    [st |-> "none", speech_seq |-> <<>>, n |-> 0, i |-> 0, at |-> "none", m |-> 0,
     sent |-> 0, must_cancel |-> FALSE, failed |-> FALSE]

\* loop.create_task(_process_speech_sequence(speech_seq)): the coroutine has not run yet
NewTask(plan) ==
    [NoTask EXCEPT !.st = "pending", !.speech_seq = plan, !.n = Len(plan), !.at = "start"]

NoOp == [k |-> 0, op |-> "none"]

\* the callbacks of the ready queue: task.cancel, the process_speech coroutine, and
\* the wake-up of a task with the result of the future it awaited
CancelCallback(t) == [cb |-> "cancel", t |-> t, res |-> "none"]
CreateCallback(t) == [cb |-> "create", t |-> t, res |-> "none"]
StepCallback(t, res) == [cb |-> "step", t |-> t, res |-> res]

\* the task has a wake-up in the ready queue: the future it awaited is done
scheduled(q, t) == \E n \in DOMAIN q : q[n].cb = "step" /\ q[n].t = t

\* run_in_executor(func, *args): a work item of the pool, and whether the task awaits it
WorkItem(w, t, fn, p, index, awaited) ==
    [t |-> t, k |-> w.tasks[t].i, fn |-> fn, player |-> p, index |-> index,
     st |-> "queued", awaited |-> awaited]

submit(w, t, fn, p, index) ==
    [w EXCEPT !.pool = Append(@, WorkItem(w, t, fn, p, index, TRUE))]

\* self.player.sync() called by the coroutine itself, on the loop thread
player_sync(w, t, p) ==
    [w EXCEPT !.sink[p] = <<>>, !.last_op[t] = [k |-> w.tasks[t].i, op |-> "sync"]]

\* the coroutine returned or was cancelled: the task is done.  Of a task that ended
\* on an error the record keeps the callable it ended at and the length of its plan.
end_plan(w, t, st, failed) ==
    [w EXCEPT !.tasks[t] = [NoTask EXCEPT !.st = st, !.failed = failed,
                                          !.n = IF failed THEN w.tasks[t].n ELSE 0,
                                          !.i = IF failed THEN w.tasks[t].i ELSE 0],
              !.last_op[t] = NoOp]

\* a mutant of done_speaking: the notification is sent without player.idle
done_speaking_no_idle(w, t, p) ==
    submit([w EXCEPT !.tasks[t].at = "cb"], t, "notify", 0, None)

\* DoneSpeakingTask.__call__ up to its first await: await run_in_executor(self.player.idle)
done_speaking(w, t, p) == submit([w EXCEPT !.tasks[t].at = "idle"], t, "idle", p, None)

\* the coroutine enters the i-th callable of the plan and runs to its first await
RECURSIVE begin_item(_, _, _)
begin_item(w, t, i) ==
    LET plan == w.tasks[t].speech_seq
        w1 == [w EXCEPT !.tasks[t].i = i, !.tasks[t].m = 0, !.tasks[t].sent = 0]
    IN  IF i > Len(plan) THEN end_plan(w, t, "finished", FALSE)
        ELSE CASE plan[i].kind = "SpeechTask" ->
                    IF ignorable(plan[i].task.text)
                    THEN begin_item(player_sync(w1, t, plan[i].player), t, i + 1)
                    ELSE [w1 EXCEPT !.tasks[t].at = "chunk",
                                    !.last_op[t] = [k |-> i, op |-> "request"]]
               [] plan[i].kind = "BreakTask" ->
                    submit([w1 EXCEPT !.tasks[t].at = "feed"], t, "feed", plan[i].player, None)
               [] plan[i].kind = "IndexReachedTask" ->
                    IF plan[i].index_list = <<>> THEN begin_item(w1, t, i + 1)
                    ELSE submit([w1 EXCEPT !.tasks[t].at = "cb", !.tasks[t].m = 1],
                                t, "notify", 0, Some(plan[i].index_list[1]))
               [] plan[i].kind = "DoneSpeakingTask" -> done_speaking(w1, t, plan[i].player)

\* SpeechTask, a chunk arrived: the feed goes to the pool without being awaited
feed_chunk_unawaited(w, t, p) ==
    [w EXCEPT !.tasks[t].sent = @ + 1,
              !.pool = Append(@, WorkItem(w, t, "feed", p, None, FALSE))]

\* SpeechTask, a chunk arrived: await run_in_executor(feed_func, wave_samples)
feed_chunk(w, t, p) ==
    submit([w EXCEPT !.tasks[t].at = "feed", !.tasks[t].sent = @ + 1], t, "feed", p, None)

\* an exception other than CancelledError left the callable: log.exception, then break
on_error(w, t) == end_plan(w, t, "finished", TRUE)

\* the task wakes up with the result of what it awaited and runs to its next await
resume(w, t, res) ==
    LET tk == w.tasks[t]
        c == tk.speech_seq[tk.i]
    IN  CASE tk.at = "start" -> begin_item(w, t, 1)
          [] tk.at = "chunk" /\ res = "chunk" -> feed_chunk(w, t, c.player)
          [] tk.at = "chunk" /\ res = "eos" ->
                begin_item(player_sync(w, t, c.player), t, tk.i + 1)
          [] tk.at = "chunk" /\ res = "error" -> on_error(w, t)
          [] tk.at = "feed" /\ c.kind = "SpeechTask" -> [w EXCEPT !.tasks[t].at = "chunk"]
          [] tk.at = "feed" /\ c.kind = "BreakTask" ->
                submit([w EXCEPT !.tasks[t].at = "sync"], t, "sync", c.player, None)
          [] tk.at = "sync" -> begin_item(w, t, tk.i + 1)
          [] tk.at = "cb" /\ c.kind = "IndexReachedTask" /\ tk.m < Len(c.index_list) ->
                submit([w EXCEPT !.tasks[t].m = tk.m + 1], t, "notify", 0,
                       Some(c.index_list[tk.m + 1]))
          [] tk.at = "cb" /\ ~(c.kind = "IndexReachedTask" /\ tk.m < Len(c.index_list)) ->
                begin_item(w, t, tk.i + 1)
          [] tk.at = "idle" ->
                submit([w EXCEPT !.tasks[t].at = "cb"], t, "notify", 0, None)

\* a wake-up of the task: a pending cancellation is thrown into the coroutine
\* (CancelledError is not an Exception, so it leaves _process_speech_sequence)
step(w, t, res) ==
    IF w.tasks[t].must_cancel \/ res = "cancelled"
    THEN end_plan(w, t, "cancelled", FALSE)
    ELSE resume(w, t, res)

\* the sequence without its n-th element
Remove(q, n) == SubSeq(q, 1, n - 1) \o SubSeq(q, n + 1, Len(q))

\* the work item the task awaits, if the pool still holds it
AwaitedItems(pl, t) == { n \in DOMAIN pl : pl[n].t = t /\ pl[n].awaited }

\* Task.cancel(): a task that waits for a future cancels the future (a work item
\* that has not started is dropped, one that runs goes on unobserved) and is woken
\* with the cancellation; a task that is already due to run gets the cancellation
\* at that run; a task that is done is left alone
task_cancel(w, q, t) ==
    IF w.tasks[t].st # "pending" THEN [w |-> w, ready |-> q]
    ELSE IF scheduled(q, t)
    THEN [w |-> [w EXCEPT !.tasks[t].must_cancel = TRUE], ready |-> q]
    ELSE LET A == AwaitedItems(w.pool, t)
             n == CHOOSE n \in A : TRUE
             pl == IF A = {} THEN w.pool
                   ELSE IF w.pool[n].st = "queued" THEN Remove(w.pool, n)
                   ELSE [w.pool EXCEPT ![n].awaited = FALSE]
         IN  [w |-> [w EXCEPT !.pool = pl], ready |-> Append(q, StepCallback(t, "cancelled"))]

\* the speech sequences the host hands to speak() when the scheduler is studied
RunSeqs ==
    { << Str(Hello_), IndexCommand(1), Str(world) >>,
      << Str(Hello_), BreakCommand(300), IndexCommand(1), IndexCommand(2) >>,
      << Str(Comma), BreakCommand(300) >>,
      << LangChangeCommand(Some(de_DE)) >> }

World == [tasks |-> tasks, pool |-> pool, sink |-> sink, last_op |-> last_op]

SInit ==
    /\ call = "none"
    /\ nplans = 0
    /\ current_task = 0
    /\ tasks = [t \in Tasks |-> NoTask]
    /\ ready = <<>>
    /\ pool = <<>>
    /\ sink = [p \in SampleRates |-> <<>>]
    /\ reported = <<>>
    /\ stopped = {}
    /\ late_feed = {}
    /\ last_op = [t \in Tasks |-> NoOp]

----------------------------------------------------------------------------
(* The supervisor of the engine process (grpc_client) and the aio module *)

\* the ports find_free_port() can hand out
NumPorts == 3

Ports == 1..NumPorts

\* the module state start_grpc_server() reads and writes
Supervisor ==
    [port |-> gport, process |-> gprocess, globalVars |-> globalVars,
     processes |-> processes, ret |-> FALSE, attempted |-> FALSE]

\* the ports no running engine listens on
free_ports(ps) == Ports \ { ps[h].port : h \in { x \in DOMAIN ps : ps[x].running } }

\* the number of engine processes that run
live_processes(ps) == Cardinality({ h \in DOMAIN ps : ps[h].running })

\* find_free_port() returned port, and subprocess.Popen raised or gave a process
popen(g, port, popen_ok) ==
    IF popen_ok
    THEN LET h == Len(g.processes) + 1
         IN  [g EXCEPT !.port = port, !.process = h,
                       !.processes = Append(@, [port |-> port, running |-> TRUE]),
                       !.globalVars = Some([SONATA_GRPC_SERVER_PORT |-> port,
                                            GRPC_SERVER_PROCESS |-> h]),
                       !.ret = TRUE, !.attempted = TRUE]
    ELSE [g EXCEPT !.port = port, !.ret = FALSE, !.attempted = TRUE]

\* start_grpc_server() without the look at globalVars
start_grpc_server_relaunch(g, port, popen_ok) == popen(g, port, popen_ok)

\* start_grpc_server(): what globalVars holds is taken over, else the engine is launched
start_grpc_server(g, port, popen_ok) ==
    IF g.globalVars # None
    THEN [g EXCEPT !.port = g.globalVars[1].SONATA_GRPC_SERVER_PORT,
                   !.process = g.globalVars[1].GRPC_SERVER_PROCESS,
                   !.ret = TRUE, !.attempted = FALSE]
    ELSE popen(g, port, popen_ok)

\* history: what a call of start_grpc_server() did and left behind
StartRecord(g) ==
    [ret |-> g.ret, attempted |-> g.attempted, port |-> g.port, process |-> g.process,
     live |-> live_processes(g.processes)]

\* history: the last two calls since the last terminate()
remember(h, r) == IF Len(h) < 2 THEN Append(h, r) ELSE << h[2], r >>

GInit ==
    /\ gport = 0
    /\ gprocess = 0
    /\ globalVars = None
    /\ processes = <<>>
    /\ started = <<>>
    /\ channel = 0
    /\ aio = [executor |-> TRUE, loop_thread |-> TRUE]
    /\ terminated = <<>>

----------------------------------------------------------------------------
(* speak() as the caller thread sees it, the loop left aside *)

\* a mutant of restore: the options the call leaves stay the live ones
restore_skipped(old, lv) == lv

\* create_synthesis_context after the yield: self.speech_options = old_speech_options
restore(old, lv) == old

\* the positions of the SpeechTasks of a plan
SpeechTasksOf(plan) == { k \in DOMAIN plan : plan[k].kind = "SpeechTask" }

\* history: the rate field of the last SpeechTask of a plan compiled from a sequence
\* with a RateCommand in front of a text, None otherwise
rate_spoken(seq, plan, h) ==
    IF /\ \E i, j \in DOMAIN seq :
            i < j /\ seq[i].type = "RateCommand" /\ seq[j].type = "str" /\ seq[j].text # <<>>
       /\ SpeechTasksOf(plan) # {}
    THEN LET k == CHOOSE k \in SpeechTasksOf(plan) : \A m \in SpeechTasksOf(plan) : m <= k
         IN h[plan[k].task.speech_options].rate
    ELSE None

CInit ==
    /\ heap = << SpeechOptions(1) >>
    /\ live = 1
    /\ player = Voices[1].sample_rate
    /\ cpc = "idle"
    /\ in_seq = <<>>
    /\ speech_seq = <<>>
    /\ old_speech_options = 0
    /\ outcome = "none"
    /\ entry_options = SpeechOptions(1)
    /\ last_rate = None

\* speak() enters the synthesis context (the copy kept for the restore) and compiles
\* the sequence; the objects of earlier calls are out of reach and dropped
CompileCall(seq) ==
    /\ cpc = "idle"
    /\ LET old == copy(<< heap[live] >>, 1)
           r == prepare(old.heap, 1, player, seq)
       IN /\ heap' = r.heap
          /\ live' = 1
          /\ old_speech_options' = old.id
          /\ speech_seq' = r.speech_seq
          /\ cpc' = IF r.raised THEN "raised" ELSE "submitted"
    /\ in_seq' = seq
    /\ entry_options' = heap[live]
    /\ UNCHANGED <<player, outcome, last_rate, svars, gvars, dvars, rvars>>

\* the plan is handed over and the context manager restores the options
CompileReturn ==
    /\ cpc = "submitted"
    /\ heap' = << heap[restore(old_speech_options, live)] >>
    /\ live' = 1
    /\ cpc' = "idle"
    /\ outcome' = "returned"
    /\ last_rate' = rate_spoken(in_seq, speech_seq, heap)
    /\ speech_seq' = <<>>
    /\ in_seq' = <<>>
    /\ old_speech_options' = 0
    /\ UNCHANGED <<player, entry_options, svars, gvars, dvars, rvars>>

\* the exception leaves speak(): the generator of the context manager is not resumed
\* after its yield, so nothing is restored
CompileRaise ==
    /\ cpc = "raised"
    /\ heap' = << heap[live] >>
    /\ live' = 1
    /\ cpc' = "idle"
    /\ outcome' = "raised"
    /\ last_rate' = None
    /\ speech_seq' = <<>>
    /\ in_seq' = <<>>
    /\ old_speech_options' = 0
    /\ UNCHANGED <<player, entry_options, svars, gvars, dvars, rvars>>

CNext ==
    \/ cpc = "idle" /\ \E seq \in AllSeqs : CompileCall(seq)
    \/ CompileReturn
    \/ CompileRaise

\* a task of the queue-based driver: its class, the player it holds, the calls of
\* cancel() before it was put, and the method that put it
QTask(kind, p, epoch, of) == [kind |-> kind, player |-> p, epoch |-> epoch, of |-> of]
NoQTask == QTask("none", 0, 0, "none")

\* the queue-based driver after SynthDriver.__init__: an empty queue, the thread
\* waiting in get(), the event clear, the player of the voice's sample rate
QInit ==
    /\ bgQueue = << >>
    /\ unfinished_tasks = 0
    /\ silence_event = FALSE
    /\ bgThread = [at |-> "get", task |-> NoQTask, sent |-> 0]
    /\ mainThread = [pc |-> "idle", todo |-> << >>, terminating |-> FALSE, drained |-> 0]
    /\ piper_player = CHOOSE p \in SampleRates : \A q \in SampleRates : p >= q
    /\ piper_players = [p \in {piper_player} |-> {}]
    /\ cancels = 0
    /\ speaks = 0
    /\ late_fate = {}

\* no silence has been generated, no player is closed, the driver was constructed
\* no voice setting has been touched: the registry as it is before SynthDriver.__init__
RIdle ==
    /\ voice_dirs = << >>
    /\ voices = << >>
    /\ synth = [phase |-> "unloaded"]
    /\ wave_players = << >>
    /\ last_set = None
    /\ rateBoost = FALSE
    /\ rate_op = None
    /\ utterance = None
    /\ QInit

DInit == silence = None /\ closed = {} /\ driver = "available" /\ RIdle

Init == CInit /\ SInit /\ GInit /\ DInit

SpecCompile == Init /\ [][CNext]_vars

----------------------------------------------------------------------------
(* The driver with its event loop and worker pool: speak(), cancel(), the    *)
(* callbacks of the loop, the workers and the engine's answers               *)

\* cancel(), first statement: asyncio_cancel_task(self._current_task) leaves
\* task.cancel on the loop's queue (call_soon_threadsafe) and returns
request_cancel(q, t) == IF t # 0 THEN Append(q, CancelCallback(t)) ELSE q

\* the task.cancel callbacks the loop has not run yet
pending_cancels(q) == Cardinality({ n \in DOMAIN q : q[n].cb = "cancel" })

\* speak(): the synthesis context is entered, then self.cancel() begins
Speak(seq) ==
    /\ driver = "available"
    /\ cpc = "idle"
    /\ nplans < MaxPlans
    /\ pending_cancels(ready) < MaxPending
    /\ LET c == copy(heap, live)
       IN  heap' = c.heap /\ old_speech_options' = c.id
    /\ in_seq' = seq
    /\ call' = "speak"
    /\ cpc' = "cancelling"
    /\ ready' = request_cancel(ready, current_task)
    /\ UNCHANGED <<dvars, rvars, gvars, live, player, speech_seq, outcome, entry_options, last_rate, nplans,
                   current_task, tasks, pool, sink, reported, stopped, late_feed, last_op>>

\* the host calls cancel()
Cancel ==
    /\ driver = "available"
    /\ cpc = "idle"
    /\ pending_cancels(ready) < MaxPending
    /\ call' = "cancel"
    /\ cpc' = "cancelling"
    /\ ready' = request_cancel(ready, current_task)
    /\ UNCHANGED <<dvars, rvars, gvars, heap, live, player, in_seq, speech_seq, old_speech_options, outcome,
                   entry_options, last_rate, nplans, current_task, tasks, pool, sink,
                   reported, stopped, late_feed, last_op>>

\* cancel(), second statement: self._player.stop() discards what the sink holds
Stop ==
    /\ cpc = "cancelling"
    /\ sink' = [sink EXCEPT ![player] = <<>>]
    /\ stopped' = IF current_task # 0 THEN stopped \cup {current_task} ELSE stopped
    /\ cpc' = CASE call = "speak" -> "stopped"
                 [] call = "terminate" -> "closing"
                 [] OTHER -> "idle"
    /\ call' = IF call \in {"speak", "terminate"} THEN call ELSE "none"
    /\ UNCHANGED <<dvars, rvars, gvars, heap, live, player, in_seq, speech_seq, old_speech_options, outcome,
                   entry_options, last_rate, nplans, current_task, tasks, ready, pool,
                   reported, late_feed, last_op>>

\* speak() compiles the sequence and hands the plan to the loop
\* (run_coroutine_threadsafe), or the compilation raises
Submit ==
    /\ cpc = "stopped"
    /\ LET r == prepare(heap, live, player, in_seq)
       IN  /\ heap' = r.heap
           /\ live' = r.live
           /\ IF r.raised
              THEN /\ cpc' = "raised"
                   /\ UNCHANGED <<speech_seq, nplans, ready>>
              ELSE /\ cpc' = "submitted"
                   /\ speech_seq' = r.speech_seq
                   /\ nplans' = nplans + 1
                   /\ ready' = Append(ready, CreateCallback(nplans + 1))
    /\ UNCHANGED <<dvars, rvars, gvars, player, in_seq, old_speech_options, outcome, entry_options, last_rate,
                   call, current_task, tasks, pool, sink, reported, stopped, late_feed,
                   last_op>>

\* .result() returned the task: it becomes _current_task, and the context
\* manager puts the options back
SpeakReturn ==
    /\ cpc = "submitted"
    /\ tasks[nplans].st # "none"
    /\ current_task' = nplans
    /\ live' = restore(old_speech_options, live)
    /\ cpc' = "idle"
    /\ call' = "none"
    /\ in_seq' = <<>>
    /\ speech_seq' = <<>>
    /\ old_speech_options' = 0
    /\ UNCHANGED <<dvars, rvars, gvars, heap, player, outcome, entry_options, last_rate, nplans, tasks, ready,
                   pool, sink, reported, stopped, late_feed, last_op>>

\* the exception of the compilation leaves speak(); the objects the call made are
\* out of reach and dropped
SpeakRaise ==
    /\ cpc = "raised"
    /\ heap' = SubSeq(heap, 1, old_speech_options - 1)
    /\ cpc' = "idle"
    /\ call' = "none"
    /\ in_seq' = <<>>
    /\ old_speech_options' = 0
    /\ UNCHANGED <<dvars, rvars, gvars, live, player, speech_seq, outcome, entry_options, last_rate,
                   nplans, current_task, tasks, ready, pool, sink, reported, stopped,
                   late_feed, last_op>>

\* the loop runs task.cancel
LoopCancel ==
    /\ ready # <<>>
    /\ Head(ready).cb = "cancel"
    /\ LET r == task_cancel(World, Tail(ready), Head(ready).t)
       IN  /\ tasks' = r.w.tasks
           /\ pool' = r.w.pool
           /\ ready' = r.ready
    /\ UNCHANGED <<dvars, rvars, gvars, cvars, call, nplans, current_task, sink, reported, stopped, late_feed,
                   last_op>>

\* the loop runs process_speech: the task is created, due to run, and returned
LoopCreate ==
    /\ ready # <<>>
    /\ Head(ready).cb = "create"
    /\ tasks' = [tasks EXCEPT ![Head(ready).t] = NewTask(speech_seq)]
    /\ ready' = Append(Tail(ready), StepCallback(Head(ready).t, "start"))
    /\ UNCHANGED <<dvars, rvars, gvars, cvars, call, nplans, current_task, pool, sink, reported, stopped,
                   late_feed, last_op>>

\* the loop runs a task up to its next await
LoopStep ==
    /\ ready # <<>>
    /\ Head(ready).cb = "step"
    /\ LET w == step(World, Head(ready).t, Head(ready).res)
       IN  /\ tasks' = w.tasks
           /\ pool' = w.pool
           /\ sink' = w.sink
           /\ last_op' = w.last_op
    /\ ready' = Tail(ready)
    /\ UNCHANGED <<dvars, rvars, gvars, cvars, call, nplans, current_task, reported, stopped, late_feed>>

\* the engine answers the request of a task that waits for the stream: a chunk,
\* the end of the stream, or an error
EngineReply(t, res) ==
    /\ tasks[t].st = "pending"
    /\ tasks[t].at = "chunk"
    /\ ~scheduled(ready, t)
    /\ res = "chunk" => tasks[t].sent < MaxChunks
    /\ ready' = Append(ready, StepCallback(t, res))
    /\ UNCHANGED <<dvars, rvars, gvars, cvars, call, nplans, current_task, tasks, pool, sink, reported,
                   stopped, late_feed, last_op>>

\* a free worker takes the oldest work item that waits
WorkerTake ==
    LET Q == { n \in DOMAIN pool : pool[n].st = "queued" }
    IN  /\ Q # {}
        /\ Cardinality({ n \in DOMAIN pool : pool[n].st = "running" }) < NumWorkers
        /\ pool' = [pool EXCEPT ![CHOOSE n \in Q : \A x \in Q : n <= x].st = "running"]
        /\ UNCHANGED <<dvars, rvars, gvars, cvars, call, nplans, current_task, tasks, ready, sink,
                       reported, stopped, late_feed, last_op>>

\* the worker calls the function of its work item (player.feed, player.sync,
\* player.idle, _on_index_reached) and hands the result to the loop
WorkerRun(n) ==
    /\ pool[n].st = "running"
    /\ LET j == pool[n]
       IN  /\ sink' = CASE j.fn = "feed" -> [sink EXCEPT ![j.player] = Append(@, j.t)]
                        [] j.fn \in {"sync", "idle"} -> [sink EXCEPT ![j.player] = <<>>]
                        [] OTHER -> sink
           /\ reported' = IF j.fn = "notify"
                          THEN Append(reported, [t |-> j.t, index |-> j.index])
                          ELSE reported
           /\ late_feed' = IF j.fn = "feed" /\ j.t \in stopped
                           THEN late_feed \cup {j.t} ELSE late_feed
           /\ last_op' = IF tasks[j.t].st = "pending"
                         THEN [last_op EXCEPT ![j.t] = [k |-> j.k, op |-> j.fn]]
                         ELSE last_op
           /\ ready' = IF j.awaited THEN Append(ready, StepCallback(j.t, "job_done"))
                       ELSE ready
    /\ pool' = Remove(pool, n)
    /\ UNCHANGED <<dvars, rvars, gvars, cvars, call, nplans, current_task, tasks, stopped>>

SNext ==
    \/ \E seq \in RunSeqs : Speak(seq)
    \/ Cancel
    \/ Stop
    \/ Submit
    \/ SpeakReturn
    \/ SpeakRaise
    \/ LoopCancel
    \/ LoopCreate
    \/ LoopStep
    \/ \E t \in Tasks, res \in {"chunk", "eos", "error"} : EngineReply(t, res)
    \/ WorkerTake
    \/ \E n \in DOMAIN pool : WorkerRun(n)

Spec == Init /\ [][SNext]_vars

\* what runs without the host: the event loop, the workers of the executor, the
\* engine (whose streams end) and the caller thread inside speak() or cancel()
LoopRuns == LoopCancel \/ LoopCreate \/ LoopStep
WorkersRun == WorkerTake \/ \E n \in DOMAIN pool : WorkerRun(n)
EngineRuns == \E t \in Tasks, res \in {"chunk", "eos", "error"} : EngineReply(t, res)
CallerRuns == Stop \/ Submit \/ SpeakReturn \/ SpeakRaise

\* the scheduler with a loop thread, workers, engine and caller that go on running
SpecLive ==
    /\ Init /\ [][SNext]_vars
    /\ WF_vars(LoopRuns) /\ WF_vars(WorkersRun) /\ WF_vars(EngineRuns) /\ WF_vars(CallerRuns)

----------------------------------------------------------------------------
(* The driver is unloaded: SynthDriver.terminate() *)

\* the host calls terminate(): its first statement is self.cancel()
DriverTerminate ==
    /\ driver = "available"
    /\ cpc = "idle"
    /\ pending_cancels(ready) < MaxPending
    /\ call' = "terminate"
    /\ cpc' = "cancelling"
    /\ ready' = request_cancel(ready, current_task)
    /\ UNCHANGED <<dvars, rvars, gvars, heap, live, player, in_seq, speech_seq, old_speech_options,
                   outcome, entry_options, last_rate, nplans, current_task, tasks, pool,
                   sink, reported, stopped, late_feed, last_op>>

\* terminate() after cancel(): tts.shutdown() does nothing, then every player of
\* self._players is closed and the dictionary cleared; the driver is gone
ClosePlayers ==
    /\ cpc = "closing"
    /\ closed' = closed \cup {player}
    /\ cpc' = "terminated"
    /\ call' = "none"
    /\ UNCHANGED <<rvars, silence, driver, gvars, heap, live, player, in_seq, speech_seq, old_speech_options,
                   outcome, entry_options, last_rate, nplans, current_task, tasks, ready,
                   pool, sink, reported, stopped, late_feed, last_op>>

TNext ==
    \/ SNext
    \/ DriverTerminate
    \/ ClosePlayers

SpecShutdown == Init /\ [][TNext]_vars

----------------------------------------------------------------------------
(* The supervisor's operations *)

\* a call of start_grpc_server(); find_free_port() gives port and Popen works or raises
Start(port, popen_ok) ==
    /\ LET g == start_grpc_server(Supervisor, port, popen_ok)
       IN  /\ gport' = g.port
           /\ gprocess' = g.process
           /\ globalVars' = g.globalVars
           /\ processes' = g.processes
           /\ started' = remember(started, StartRecord(g))
    /\ terminated' = <<>>
    /\ UNCHANGED <<channel, aio, cvars, svars, dvars, rvars>>

\* the coroutine grpc_client.initialize() on the loop: start_grpc_server(), then the
\* channel unless there is one, then bench(), which schedules initialize() once
\* more: that one calls start_grpc_server() again and finds the channel
GrpcInitialize(port, popen_ok, port2, popen_ok2) ==
    /\ aio.loop_thread
    /\ LET g1 == start_grpc_server(Supervisor, port, popen_ok)
           g2 == start_grpc_server(g1, port2, popen_ok2)
           g == IF channel # 0 THEN g1 ELSE g2
       IN  /\ channel = 0 => port2 \in free_ports(g1.processes)
           /\ gport' = g.port
           /\ gprocess' = g.process
           /\ globalVars' = g.globalVars
           /\ processes' = g.processes
           /\ channel' = IF channel # 0 THEN channel ELSE g1.port
           /\ started' = IF channel # 0 THEN remember(started, StartRecord(g1))
                         ELSE remember(remember(started, StartRecord(g1)), StartRecord(g2))
    /\ terminated' = <<>>
    /\ UNCHANGED <<aio, cvars, svars, dvars, rvars>>

\* grpc_client.terminate(): the port is forgotten, aio.terminate() shuts the executor
\* down and stops the loop (it raises AttributeError when the executor is None, and
\* the rest is skipped), the channel is closed and the process terminated
Terminate ==
    /\ gport' = 0
    /\ started' = <<>>
    /\ IF ~aio.executor
       THEN UNCHANGED <<aio, channel, gprocess, processes>>
       ELSE /\ aio' = [executor |-> FALSE, loop_thread |-> FALSE]
            /\ channel' = 0
            /\ gprocess' = 0
            /\ processes' = IF gprocess # 0
                            THEN [processes EXCEPT ![gprocess].running = FALSE]
                            ELSE processes
    /\ terminated' = remember(terminated,
                              [error |-> IF aio.executor THEN "none" ELSE "AttributeError",
                               changed |-> <<gport', gprocess', processes', channel', aio'>>
                                           # <<gport, gprocess, processes, channel, aio>>])
    /\ UNCHANGED <<globalVars, cvars, svars, dvars, rvars>>

\* aio.initialize(): a new executor, and the loop thread unless it runs
AioInitialize ==
    /\ aio' = [executor |-> TRUE, loop_thread |-> TRUE]
    /\ terminated' = <<>>
    /\ UNCHANGED <<gport, gprocess, globalVars, processes, started, channel, cvars, svars, dvars, rvars>>

GNext ==
    \/ \E port \in free_ports(processes), popen_ok \in BOOLEAN : Start(port, popen_ok)
    \/ \E port \in free_ports(processes), port2 \in Ports, popen_ok, popen_ok2 \in BOOLEAN :
            GrpcInitialize(port, popen_ok, port2, popen_ok2)
    \/ Terminate
    \/ AioInitialize

SpecSup == Init /\ [][GNext]_vars

----------------------------------------------------------------------------
(* Silence: a BreakCommand of time_ms milliseconds while a voice of lang is current *)

\* a BreakTask is ready: its SilenceProvider comes from create_break_provider(time_ms)
\* with a voice of lang current, and no audio has been generated
BInit ==
    /\ CInit /\ SInit /\ GInit /\ RIdle
    /\ \E time_ms \in 0..MaxBreak, lang \in {en_US, fr_FR} :
        LET r == set_language(<< SpeechOptions(1) >>, 1, lang)
        IN  /\ ~r.raised
            /\ silence = Some([task |-> create_break_provider(r.heap, 1, time_ms),
                               audio |-> None])
            /\ closed = {}
            /\ driver = "available"

\* BreakTask.__call__ evaluates self.task.generate_audio()
GenerateAudio ==
    /\ silence # None
    /\ silence[1].audio = None
    /\ silence' = Some([silence[1] EXCEPT !.audio = Some(generate_audio(silence[1].task))])
    /\ UNCHANGED <<rvars, cvars, svars, gvars, closed, driver>>

BNext == GenerateAudio

SpecSilence == BInit /\ [][BNext]_vars

----------------------------------------------------------------------------
(* The driver is loaded: the module is imported (aio.initialize(), then              *)
(* grpc_client.initialize() on the loop) and the host constructs the SynthDriver     *)

\* an engine process runs and listens on the port the channel connects to
engine_listening ==
    /\ channel # 0
    /\ \E h \in DOMAIN processes : processes[h].running /\ processes[h].port = channel

\* a mutant of synth_init: __init__ goes on after the failure
synth_init_no_return(reachable) == "available"

\* SynthDriver.__init__: when _GRPC_IS_INIT.result() or check_grpc_server().result()
\* raises, it logs "Synthesizer will not be available" and returns before
\* _current_task, tts and _player are set
synth_init(reachable) == IF reachable THEN "available" ELSE "unavailable"

\* the sequences handed to speak() when the loading is studied
LoadSeqs == { << Str(Hello_) >>, << LangChangeCommand(Some(de_DE)) >> }

\* the module was imported, the driver object does not exist yet
LInit == CInit /\ SInit /\ GInit /\ silence = None /\ closed = {} /\ driver = "unloaded" /\ RIdle

\* what becomes of a version request: the engine answers it, the call fails
\* with an error, or the engine has accepted the connection and never answers
EngineReplies == {"answered", "error", "silent"}

\* the waits of SynthDriver.__init__ on the engine: _GRPC_IS_INIT.result() has
\* no timeout and the requests of bench() have no deadline, so it does not
\* return while they are not answered; check_grpc_server() gives its request
\* 15 seconds (asyncio.wait_for) and raises after them
synth_wait(bench_reply, check_reply) ==
    IF bench_reply = "silent" THEN "blocked"
    ELSE synth_init(bench_reply = "answered" /\ check_reply = "answered")

\* the host constructs the driver; the version requests of bench() and of
\* check_grpc_server() are answered, or left without an answer, only if an
\* engine listens
DriverInit(bench_reply, check_reply) ==
    /\ driver = "unloaded"
    /\ channel # 0
    /\ bench_reply # "error" => engine_listening
    /\ driver' = synth_wait(bench_reply, check_reply)
    /\ UNCHANGED <<rvars, cvars, svars, gvars, silence, closed>>

\* speak() on a driver whose __init__ returned early: self.cancel() reads
\* self._current_task and raises AttributeError, whatever the sequence
SpeakUnavailable ==
    /\ driver = "unavailable"
    /\ cpc = "idle"
    /\ outcome' = "raised"
    /\ UNCHANGED <<heap, live, player, cpc, in_seq, speech_seq, old_speech_options,
                   entry_options, last_rate, svars, gvars, dvars, rvars>>

LNext ==
    \/ /\ driver = "unloaded"
       /\ channel = 0
       /\ \E port \in free_ports(processes), port2 \in Ports, popen_ok, popen_ok2 \in BOOLEAN :
              GrpcInitialize(port, popen_ok, port2, popen_ok2)
    \/ \E bench_reply, check_reply \in EngineReplies : DriverInit(bench_reply, check_reply)
    \/ SpeakUnavailable
    \/ \E seq \in LoadSeqs : Speak(seq)
    \/ Cancel
    \/ Stop
    \/ Submit
    \/ SpeakReturn
    \/ SpeakRaise
    \/ LoopCancel
    \/ LoopCreate
    \/ LoopStep
    \/ \E t \in Tasks, res \in {"chunk", "eos", "error"} : EngineReply(t, res)
    \/ WorkerTake
    \/ \E n \in DOMAIN pool : WorkerRun(n)

SpecLoad == LInit /\ [][LNext]_vars

----------------------------------------------------------------------------
(* The voice registry (tts_system.py): the voice directories, SonataVoice and   *)
(* its keys, and the voice, variant and speaker settings of the driver          *)

RT == <<"+", "R", "T">>

\* sub stands in s at position i
has_at(s, sub, i) == i + Len(sub) - 1 <= Len(s) /\ SubSeq(s, i, i + Len(sub) - 1) = sub

\* sub in s
contains(s, sub) == \E i \in 1..Len(s) : has_at(s, sub, i)

\* s.replace(old, new)
RECURSIVE replace(_, _, _)
replace(s, old, new) ==
    IF s = <<>> THEN <<>>
    ELSE IF has_at(s, old, 1)
    THEN new \o replace(SubSeq(s, Len(old) + 1, Len(s)), old, new)
    ELSE << s[1] >> \o replace(Tail(s), old, new)

\* s.split(sep) for a separator of one character
RECURSIVE split(_, _)
split(s, sep) ==
    IF \E i \in DOMAIN s : s[i] = sep
    THEN LET i == FirstOf({ x \in DOMAIN s : s[x] = sep })
         IN  << SubSeq(s, 1, i - 1) >> \o split(SubSeq(s, i + 1, Len(s)), sep)
    ELSE << s >>

\* SonataVoice.is_fast, variant and standard_variant_key
is_fast(key) == contains(key, RT)
variant(key) == IF is_fast(key) THEN "fast" ELSE "standard"
standard_variant_key(key) == replace(key, RT, <<>>)

\* a mutant of fast_variant_key: the mark is put behind the quality
fast_variant_key_suffixed(key) == replace(key, RT, <<>>) \o RT

\* SonataVoice.fast_variant_key: the mark goes behind the name
fast_variant_key(key) ==
    LET parts == split(replace(key, RT, <<>>), "-")
    IN  join(<<"-">>, << parts[1], parts[2] \o RT, parts[3] >>)

\* SonataVoice.from_path: a directory name of three parts, else ValueError (None)
from_path(dirname) ==
    LET parts == split(dirname, "-")
    IN  IF Len(parts) # 3 THEN None
        ELSE Some([key |-> dirname, name |-> parts[2], language |-> parts[1]])

amy == <<"a", "m", "y">>
siwis == <<"s", "i", "w", "i", "s">>
medium == <<"m", "e", "d", "i", "u", "m">>
low == <<"l", "o", "w">>
dash == <<"-">>

\* the names a directory under SONATA_VOICES_DIR can have here, in the order in
\* which sorted() puts the keys: a fast and a standard voice as the downloader
\* names them, a voice with the mark behind the quality, a voice of another
\* language, and a directory that is no voice
VoiceDirs ==
    << en_US \o dash \o amy \o RT \o dash \o medium,
       en_US \o dash \o amy \o dash \o medium,
       en_US \o dash \o amy \o dash \o medium \o RT,
       fr_FR \o dash \o siwis \o dash \o low,
       <<"t", "m", "p">> >>

\* what is in a directory: nothing is there, the model and its *.json, or no *.json
DirStates == {"absent", "ok", "no_json"}

FALLBACK_SPEAKER_NAME == "default"

\* the VoiceInfo the engine answers to LoadVoice: the voices of amy have 22050 Hz
\* and her standard voice two speakers, siwis has 16000 Hz and one speaker
voice_info(key) ==
    [sample_rate |-> IF contains(key, amy) THEN 22050 ELSE 16000,
     speakers |-> IF key = en_US \o dash \o amy \o dash \o medium
                  THEN <<"amy_1", "amy_2">> ELSE << >>]

\* load_voices_from_directory and the sort of load_piper_voices_from_nvda_config_dir:
\* a SonataVoice for every directory whose name from_path accepts
RECURSIVE load_voices_from_directory(_, _)
load_voices_from_directory(dirs, d) ==
    IF d > Len(VoiceDirs) THEN << >>
    ELSE LET v == from_path(VoiceDirs[d])
         IN  (IF dirs[d] = "absent" \/ v = None THEN << >>
              ELSE << [key |-> v[1].key, name |-> v[1].name, dir |-> d,
                       remote_id |-> None, sample_rate |-> None, speakers |-> << >>,
                       speaker |-> None, loads |-> 0] >>)
             \o load_voices_from_directory(dirs, d + 1)

\* the LoadVoice requests sent so far
RECURSIVE requests(_)
requests(vs) == IF vs = << >> THEN 0 ELSE vs[1].loads + requests(Tail(vs))

\* a mutant of load: the voice is loaded again although it has a remote id
load_again(vs, i, dirs) ==
    IF dirs[vs[i].dir] # "ok" THEN [voices |-> vs, raised |-> TRUE]
    ELSE LET info == voice_info(vs[i].key)
         IN  [voices |-> [vs EXCEPT ![i].remote_id = Some(requests(vs) + 1),
                                    ![i].loads = @ + 1,
                                    ![i].sample_rate = Some(info.sample_rate),
                                    ![i].speakers = info.speakers,
                                    ![i].speaker = IF info.speakers = << >> THEN None
                                                   ELSE Some(info.speakers[1])],
              raised |-> FALSE]

\* SonataVoice.load: nothing for a voice with a remote id; RuntimeError without
\* a *.json; else one LoadVoice request, whose answer is kept in the voice
load(vs, i, dirs) ==
    IF vs[i].remote_id # None THEN [voices |-> vs, raised |-> FALSE]
    ELSE IF dirs[vs[i].dir] # "ok" THEN [voices |-> vs, raised |-> TRUE]
    ELSE LET info == voice_info(vs[i].key)
         IN  [voices |-> [vs EXCEPT ![i].remote_id = Some(requests(vs) + 1),
                                    ![i].loads = @ + 1,
                                    ![i].sample_rate = Some(info.sample_rate),
                                    ![i].speakers = info.speakers,
                                    ![i].speaker = IF info.speakers = << >> THEN None
                                                   ELSE Some(info.speakers[1])],
              raised |-> FALSE]

\* a mutant of _get_or_create_player: a new WavePlayer at every request
create_player_always(st, sample_rate) ==
    LET n == Len(st.wave_players) + 1
    IN  [st EXCEPT !.wave_players = Append(@, [rate |-> sample_rate, open |-> TRUE]),
                   !.synth.players = [r \in DOMAIN @ \cup {sample_rate} |->
                                          IF r = sample_rate THEN n ELSE @[r]],
                   !.synth.player = n]

\* self._player = self._get_or_create_player(sample_rate): the WavePlayer that
\* _players holds for the rate, created when there is none
get_or_create_player(st, sample_rate) ==
    IF sample_rate \in DOMAIN st.synth.players
    THEN [st EXCEPT !.synth.player = st.synth.players[sample_rate]]
    ELSE LET n == Len(st.wave_players) + 1
         IN  [st EXCEPT !.wave_players = Append(@, [rate |-> sample_rate, open |-> TRUE]),
                        !.synth.players = [r \in DOMAIN @ \cup {sample_rate} |->
                                               IF r = sample_rate THEN n ELSE @[r]],
                        !.synth.player = n]

\* the setter of SonataTextToSpeechSystem.voice: the first voice with the key is
\* loaded and becomes the voice of the speech options, else VoiceNotFoundError
set_tts_voice(st, new_voice, dirs) ==
    LET found == { i \in DOMAIN st.voices : st.voices[i].key = new_voice }
    IN  IF found = {} THEN [st EXCEPT !.raised = "VoiceNotFoundError"]
        ELSE LET r == load(st.voices, FirstOf(found), dirs)
             IN  IF r.raised THEN [st EXCEPT !.raised = "RuntimeError"]
                 ELSE [st EXCEPT !.voices = r.voices, !.synth.voice = FirstOf(found)]

\* the setter of SonataTextToSpeechSystem.speaker: nothing for a voice of one
\* speaker, the first speaker for the fallback name, SpeakerNotFoundError for a
\* name the voice has not
set_tts_speaker(st, new_speaker) ==
    LET v == st.voices[st.synth.voice]
    IN  IF v.speakers = << >> THEN st
        ELSE IF new_speaker = FALLBACK_SPEAKER_NAME
        THEN [st EXCEPT !.voices[st.synth.voice].speaker = Some(v.speakers[1])]
        ELSE IF \E x \in DOMAIN v.speakers : v.speakers[x] = new_speaker
        THEN [st EXCEPT !.voices[st.synth.voice].speaker = Some(new_speaker)]
        ELSE [st EXCEPT !.raised = "SpeakerNotFoundError"]

\* SynthDriver._set_speaker: SpeakerNotFoundError is caught here
set_speaker(st, new_value) == [set_tts_speaker(st, new_value) EXCEPT !.raised = "none"]

\* SynthDriver._set_variant: the key of the asked variant of the live voice;
\* nothing for an unknown variant or a key without a voice; else the voice and
\* the player of its sample rate
set_variant(st, new_value, dirs) ==
    LET key == st.voices[st.synth.voice].key
        voice_key == IF new_value = "standard" THEN standard_variant_key(key)
                     ELSE fast_variant_key(key)
    IN  IF new_value \notin {"standard", "fast"} THEN st
        ELSE IF \A i \in DOMAIN st.voices : st.voices[i].key # voice_key THEN st
        ELSE LET r == set_tts_voice(st, voice_key, dirs)
             IN  IF r.raised # "none" THEN r
                 ELSE get_or_create_player(r, r.voices[r.synth.voice].sample_rate[1])

\* SonataTextToSpeechSystem.get_voice_variants: the standard and the fast key of a voice
get_voice_variants(key) == << standard_variant_key(key), fast_variant_key(key) >>

\* SynthDriver._get_valid_voices: the ids of availableVoices, in the order of the voices
RECURSIVE get_valid_voices(_)
get_valid_voices(vs) ==
    IF vs = << >> THEN << >>
    ELSE LET rest == get_valid_voices(SubSeq(vs, 1, Len(vs) - 1))
             voice_id == get_voice_variants(vs[Len(vs)].key)[1]
         IN  IF \E x \in DOMAIN rest : rest[x] = voice_id THEN rest
             ELSE Append(rest, voice_id)

\* self._standard_voice_map: for every standard key, the last voice that has it
standard_voice_map(vs) ==
    LET std == [i \in DOMAIN vs |-> standard_variant_key(vs[i].key)]
    IN  [k \in { std[i] : i \in DOMAIN vs } |->
            CHOOSE i \in DOMAIN vs : std[i] = k /\ \A j \in DOMAIN vs : std[j] = k => j <= i]

\* SynthDriver._set_voice: a value that is no available voice is replaced by the
\* first available voice; the voice of the standard key, then the variant and
\* the speaker that SonataConfig holds for the value (the variant of the voice
\* and no speaker when it holds none)
set_voice(st, new_value, conf, dirs) ==
    LET available == st.synth.availableVoices
        val == IF \E x \in DOMAIN available : available[x] = new_value
               THEN new_value ELSE available[1]
        s1 == [st EXCEPT !.synth.voice_id = Some(val)]
        s2 == set_tts_voice(s1, s1.voices[st.synth.standard_voice_map[val]].key, dirs)
        s3 == set_variant(s2, IF conf.variant = None
                              THEN variant(s2.voices[s2.synth.voice].key)
                              ELSE conf.variant[1], dirs)
    IN  IF s2.raised # "none" THEN s2
        ELSE IF s3.raised # "none" \/ conf.speaker = None THEN s3
        ELSE set_speaker(s3, conf.speaker[1])

\* SynthDriver.__init__ from the voices on: unavailable without a voice; else
\* the configured voice (the first whose key starts with the configured key,
\* else the first voice) is loaded - a RuntimeError of load() leaves
\* __init__ -, its player is created and the maps of the voices are built
synth_construct(dirs, voice_key) ==
    LET vs == load_voices_from_directory(dirs, 1)
        matching == { i \in DOMAIN vs : voice_key # None /\ startswith(vs[i].key, voice_key[1]) }
        configured_voice == IF matching = {} THEN 1 ELSE FirstOf(matching)
        r == load(vs, configured_voice, dirs)
        st == [voices |-> r.voices, wave_players |-> << >>, raised |-> "none",
               synth |-> [phase |-> "available", voice |-> configured_voice,
                          voice_id |-> None, players |-> << >>, player |-> 0,
                          standard_voice_map |-> standard_voice_map(vs),
                          availableVoices |-> get_valid_voices(vs)]]
    IN  IF vs = << >>
        THEN [voices |-> << >>, wave_players |-> << >>, raised |-> "none",
              synth |-> [phase |-> "unavailable"]]
        ELSE IF r.raised
        THEN [voices |-> vs, wave_players |-> << >>, raised |-> "RuntimeError",
              synth |-> [phase |-> "failed"]]
        ELSE get_or_create_player(st, r.voices[configured_voice].sample_rate[1])

\* the state the setters work on
Registry == [voices |-> voices, synth |-> synth, wave_players |-> wave_players, raised |-> "none"]

\* what a setter is asked for and what it did
SetRecord(op, asked, r) ==
    Some([op |-> op, asked |-> asked, raised |-> r.raised,
          voice_before |-> voices[synth.voice].key,
          speaker_before |-> voices[synth.voice].speaker,
          voice_after |-> r.voices[r.synth.voice].key,
          speaker_after |-> r.voices[r.synth.voice].speaker])

\* the voice keys config.conf can hold: none, one of a voice, the start of two, one of no voice
ConfiguredKeys ==
    {None, Some(VoiceDirs[2]), Some(fr_FR), Some(de_DE)}

\* the ids synth.voice is set to: the standard keys and the id of no voice
VoiceIds ==
    { standard_variant_key(VoiceDirs[d]) : d \in 1..4 } \cup {de_DE \o dash \o amy \o dash \o low}

\* the variants and speakers asked for
Variants == {"standard", "fast", "turbo"}
Speakers == {FALLBACK_SPEAKER_NAME, "amy_2", "nobody"}

\* what SonataConfig holds for a voice: nothing, a variant, a variant and a speaker
SonataConfigs ==
    { [variant |-> None, speaker |-> None] }
    \cup { [variant |-> Some("fast"), speaker |-> None] }
    \cup { [variant |-> Some("standard"), speaker |-> Some(sp)] : sp \in {"amy_2", "nobody"} }

RInit ==
    /\ CInit /\ SInit /\ GInit /\ QInit
    /\ silence = None /\ closed = {} /\ driver = "unloaded"
    /\ voice_dirs \in { dirs \in [DOMAIN VoiceDirs -> DirStates] : dirs[Len(VoiceDirs)] = "ok" }
    /\ voices = << >>
    /\ synth = [phase |-> "unloaded"]
    /\ wave_players = << >>
    /\ last_set = None
    /\ rateBoost = FALSE
    /\ rate_op = None
    /\ utterance = None

\* SynthDriver() with a reachable engine
Construct ==
    /\ synth.phase = "unloaded"
    /\ \E voice_key \in ConfiguredKeys :
        LET r == synth_construct(voice_dirs, voice_key)
        IN  /\ voices' = r.voices
            /\ synth' = r.synth
            /\ wave_players' = r.wave_players
    /\ UNCHANGED <<voice_dirs, last_set, rateBoost, rate_op, utterance, cvars, svars, gvars, dvars, qvars>>

\* synth.voice = value
SetVoice ==
    /\ synth.phase = "available"
    /\ \E new_value \in VoiceIds, conf \in SonataConfigs :
        LET r == set_voice(Registry, new_value, conf, voice_dirs)
        IN  /\ voices' = r.voices
            /\ synth' = r.synth
            /\ wave_players' = r.wave_players
            /\ last_set' = SetRecord("voice", new_value, r)
    /\ UNCHANGED <<voice_dirs, rateBoost, rate_op, utterance, cvars, svars, gvars, dvars, qvars>>

\* synth.variant = value
SetVariant ==
    /\ synth.phase = "available"
    /\ \E new_value \in Variants :
        LET r == set_variant(Registry, new_value, voice_dirs)
        IN  /\ voices' = r.voices
            /\ synth' = r.synth
            /\ wave_players' = r.wave_players
            /\ last_set' = SetRecord("variant", new_value, r)
    /\ UNCHANGED <<voice_dirs, rateBoost, rate_op, utterance, cvars, svars, gvars, dvars, qvars>>

\* synth.speaker = value
SetSpeaker ==
    /\ synth.phase = "available"
    /\ \E new_value \in Speakers :
        LET r == set_speaker(Registry, new_value)
        IN  /\ voices' = r.voices
            /\ synth' = r.synth
            /\ wave_players' = r.wave_players
            /\ last_set' = SetRecord("speaker", new_value, r)
    /\ UNCHANGED <<voice_dirs, rateBoost, rate_op, utterance, cvars, svars, gvars, dvars, qvars>>

\* SynthDriver.terminate(): every player of _players is closed, _players is cleared
SynthTerminate ==
    /\ synth.phase = "available"
    /\ wave_players' = [n \in DOMAIN wave_players |->
                            IF \E r \in DOMAIN synth.players : synth.players[r] = n
                            THEN [wave_players[n] EXCEPT !.open = FALSE]
                            ELSE wave_players[n]]
    /\ synth' = [synth EXCEPT !.phase = "terminated", !.players = << >>]
    /\ UNCHANGED <<voice_dirs, voices, last_set, rateBoost, rate_op, utterance, cvars, svars, gvars, dvars, qvars>>

RNext == Construct \/ SetVoice \/ SetVariant \/ SetSpeaker \/ SynthTerminate

SpecVoices == RInit /\ [][RNext]_vars

----------------------------------------------------------------------------
(* The rate and rate boost properties of the driver (__init__.py 402-422) *)

\* the percentages NVDA sets the rate to
MaxPercent == 100

\* the largest rate without rate boost
MaxUnboostedRate == 40

\* SynthDriver._percentToParam of NVDA: int(round(float(percent) / 100 * (max - min) + min)),
\* here with min 0 and max 40; 0.4 * percent is never half way between two
\* integers, so the rounding is the one to the nearest integer
percentToParam(percent) == (4 * percent + 5) \div 10

\* SynthDriver._get_rate: with rate boost the rate of the options; without it
\* the rate of the options is first set to min(40, rate) and int(rate * 2.5)
\* is returned
driver_get_rate(h, lv, boost) ==
    IF boost THEN [heap |-> h, rate |-> get_rate(h[lv])]
    ELSE LET r == IF get_rate(h[lv]) < MaxUnboostedRate THEN get_rate(h[lv])
                  ELSE MaxUnboostedRate
         IN  [heap |-> set_rate(h, lv, r), rate |-> (5 * r) \div 2]

\* SynthDriver._set_rate
driver_set_rate(h, lv, boost, percent) ==
    set_rate(h, lv, IF boost THEN percent ELSE percentToParam(percent))

\* the record of a call: what was asked or returned and, for a read, the call before it
RateRecord(op, val, changed) ==
    Some([op |-> op, val |-> val, changed |-> changed,
          prev_op |-> IF rate_op = None \/ op # "get" THEN "none" ELSE rate_op[1].op,
          prev_val |-> IF rate_op = None \/ op # "get" THEN 0 ELSE rate_op[1].val])

\* a constructed driver: _rateBoost is False and the options have no rate
XInit ==
    /\ CInit /\ SInit /\ GInit /\ QInit
    /\ silence = None /\ closed = {} /\ driver = "available"
    /\ voice_dirs = << >>
    /\ voices = << >>
    /\ synth = [phase |-> "unloaded"]
    /\ wave_players = << >>
    /\ last_set = None
    /\ rateBoost = FALSE
    /\ rate_op = None
    /\ utterance = None

\* synth.rate = percent
SetRate ==
    /\ \E percent \in 0..MaxPercent :
        /\ heap' = driver_set_rate(heap, live, rateBoost, percent)
        /\ rate_op' = RateRecord("set", percent, FALSE)
    /\ UNCHANGED <<rateBoost, voice_dirs, voices, synth, wave_players, last_set, utterance,
                   live, player, cpc, in_seq, speech_seq, old_speech_options,
                   outcome, entry_options, last_rate, svars, gvars, dvars, qvars>>

\* synth.rate is read
GetRate ==
    /\ LET r == driver_get_rate(heap, live, rateBoost)
       IN  /\ heap' = r.heap
           /\ rate_op' = RateRecord("get", r.rate, r.heap # heap)
    /\ UNCHANGED <<rateBoost, voice_dirs, voices, synth, wave_players, last_set, utterance,
                   live, player, cpc, in_seq, speech_seq, old_speech_options,
                   outcome, entry_options, last_rate, svars, gvars, dvars, qvars>>

\* synth.rateBoost = enable: when it changes, the rate is read, the boost is
\* set and the rate is set again; the record holds the rate that was read
SetRateBoost ==
    /\ \E enable \in BOOLEAN :
        /\ enable # rateBoost
        /\ LET r == driver_get_rate(heap, live, rateBoost)
           IN  /\ heap' = driver_set_rate(r.heap, live, enable, r.rate)
               /\ rate_op' = RateRecord("boost", r.rate, FALSE)
        /\ rateBoost' = enable
    /\ UNCHANGED <<voice_dirs, voices, synth, wave_players, last_set, utterance,
                   live, player, cpc, in_seq, speech_seq, old_speech_options,
                   outcome, entry_options, last_rate, svars, gvars, dvars, qvars>>

XNext == SetRate \/ GetRate \/ SetRateBoost

SpecRate == XInit /\ [][XNext]_vars

----------------------------------------------------------------------------
(* A SpeechTask is called: SpeechTask.__call__, SpeechOptions.speak_text,        *)
(* SonataVoice.synthesize and grpc_client.speak                                  *)

\* any([...]) of Python: an argument counts when it is neither None nor 0
truthy(o) == o # None /\ o[1] # 0

\* grpc_client.speak: the Utterance that is sent; it has SpeechArgs only when
\* any of the four arguments counts
speak(text, rate, volume, pitch, appended_silence_ms) ==
    [text |-> text,
     speech_args |-> IF truthy(rate) \/ truthy(volume) \/ truthy(pitch)
                        \/ truthy(appended_silence_ms)
                     THEN Some([rate |-> rate, volume |-> volume, pitch |-> pitch,
                                appended_silence_ms |-> appended_silence_ms])
                     ELSE None]

\* SonataVoice.synthesize, called by SpeechOptions.speak_text with the fields of
\* the options: the requests it sends, none for a text that is ignored
synthesize(text, o) ==
    IF ignorable(text) THEN << >>
    ELSE << speak(text, o.rate, o.volume, o.pitch, o.sentence_silence_ms) >>

\* SpeechTask.__call__: while say all runs the line ends of the text become
\* spaces and the sentence silence of the options 50; every chunk of the
\* stream is fed, then player.sync()
speech_task_call(task, say_all, chunks) ==
    LET text == IF say_all THEN replace(task.text, <<NL>>, <<" ">>) ELSE task.text
        o == IF say_all THEN [task.speech_options EXCEPT !.sentence_silence_ms = Some(50)]
             ELSE task.speech_options
        sent == synthesize(text, o)
    IN  [requests |-> sent,
         fed |-> IF sent = << >> THEN 0 ELSE chunks,
         synced |-> TRUE]

\* the texts of the tasks: empty, blank, ignored punctuation with and without
\* blanks around it, ten commas, a word, and two lines
TaskTexts ==
    { Empty, <<" ">>, Comma, <<" ", "(", ")", NL>>,
      [n \in 1..10 |-> ","], Hello_, <<"a", NL, "b">> }

\* the options a task can hold: nothing set, zeros, and values
TaskOptions ==
    { [SpeechOptions(1) EXCEPT !.rate = r, !.volume = v, !.pitch = p,
                               !.sentence_silence_ms = sil] :
        r \in {None, Some(0), Some(80)}, v \in {None, Some(0), Some(100)},
        p \in {None, Some(50)}, sil \in {None, Some(200)} }

\* a SpeechTask of a plan that has not been called
UInit ==
    /\ CInit /\ SInit /\ GInit /\ QInit
    /\ silence = None /\ closed = {} /\ driver = "available"
    /\ voice_dirs = << >>
    /\ voices = << >>
    /\ synth = [phase |-> "unloaded"]
    /\ wave_players = << >>
    /\ last_set = None
    /\ rateBoost = FALSE
    /\ rate_op = None
    /\ \E text \in TaskTexts, o \in TaskOptions :
           utterance = Some([task |-> [text |-> text, speech_options |-> o],
                             called |-> FALSE, say_all |-> FALSE,
                             requests |-> << >>, fed |-> 0, synced |-> FALSE])

\* the plan calls the task; the engine answers a request with some chunks
SpeechTaskCall ==
    /\ ~utterance[1].called
    /\ \E say_all \in BOOLEAN, chunks \in 0..MaxChunks :
        LET r == speech_task_call(utterance[1].task, say_all, chunks)
        IN  utterance' = Some([utterance[1] EXCEPT !.called = TRUE, !.say_all = say_all,
                                                   !.requests = r.requests, !.fed = r.fed,
                                                   !.synced = r.synced])
    /\ UNCHANGED <<voice_dirs, voices, synth, wave_players, last_set, rateBoost, rate_op,
                   cvars, svars, gvars, dvars, qvars>>

UNext == SpeechTaskCall

SpecSynth == UInit /\ [][UNext]_vars

----------------------------------------------------------------------------
(* The queue-based driver (piper_neural_voices): the caller thread puts tasks
   on a queue.Queue, one background thread runs them in order *)

\* calls of speak() in one run
MaxSpeaks == 2
\* calls of cancel() in one run, the one of terminate() included
MaxCancels == 2
\* most audio chunks the engine streams for one speech task
MaxQChunks == 1

\* speech sequences, adjacent strings combined
QSeqs == { <<"str">>, <<"str", "BreakCommand", "str">> }

\* what is left unchanged by the queue-based driver
nonq == <<cvars, svars, gvars, dvars, voice_dirs, voices, synth, wave_players,
          last_set, rateBoost, rate_op, utterance>>

\* speak_say_all: a speech task at every item that is neither text nor index and
\* at the end marker, a break task for a BreakCommand, DoneSpeaking at the end
RECURSIVE say_all_tasks(_, _, _)
say_all_tasks(items, p, epoch) ==
    IF items = << >>
    THEN << QTask("ProcessSpeechTaskSayAll", p, epoch, "speak"),
            QTask("DoneSpeaking", p, epoch, "speak") >>
    ELSE IF Head(items) \in {"str", "IndexCommand"}
    THEN say_all_tasks(Tail(items), p, epoch)
    ELSE << QTask("ProcessSpeechTaskSayAll", p, epoch, "speak") >>
         \o (IF Head(items) = "BreakCommand"
             THEN << QTask("ProcessBreakTask", p, epoch, "speak") >> ELSE << >>)
         \o say_all_tasks(Tail(items), p, epoch)

\* terminate, after cancel(): close every player, clear _players, end the thread
RECURSIVE close_tasks(_)
close_tasks(ps) ==
    IF ps = {} THEN << >>
    ELSE LET p == CHOOSE q \in ps : \A r \in ps : q <= r
         IN  << QTask("close", p, cancels, "terminate") >> \o close_tasks(ps \ {p})

terminate_tasks ==
    close_tasks(DOMAIN piper_players)
        \o << QTask("players_clear", 0, cancels, "terminate"),
              QTask("None", 0, cancels, "terminate") >>

\* _get_or_create_player
piper_get_or_create_player(ps, sample_rate) ==
    [p \in DOMAIN ps \cup {sample_rate} |-> IF p \in DOMAIN ps THEN ps[p] ELSE {}]

\* WavePlayer.stop: what the sink holds is discarded
player_stop(ps, p) == [ps EXCEPT ![p] = {}]

\* WavePlayer.feed: the sink holds the chunk
player_feed(ps, p, chunk) == [ps EXCEPT ![p] = @ \cup {chunk}]

\* cancel() has stopped the sink and has not returned
AfterCancelStop == mainThread.pc \in {"drain", "put_done", "put_clear", "join"}

\* the chunk a task feeds: the task's epoch, and whether it comes after cancel()
\* has stopped the sink it goes to
chunk_of(task) ==
    [epoch |-> task.epoch,
     late |-> silence_event /\ AfterCancelStop /\ task.player = piper_player]

\* speak(speechSequence): speak_say_all computes the tasks, then puts them
PiperSpeak(seq) ==
    /\ mainThread.pc = "idle"
    /\ speaks < MaxSpeaks
    /\ speaks' = speaks + 1
    /\ mainThread' = [mainThread EXCEPT !.pc = "put",
                                        !.todo = say_all_tasks(seq, piper_player, cancels)]
    /\ UNCHANGED <<bgQueue, unfinished_tasks, silence_event, bgThread, piper_players,
                   piper_player, cancels, late_fate, nonq>>

\* self._bgQueue.put(task), for the next task of speak() or of terminate()
QueuePut ==
    /\ mainThread.pc = "put"
    /\ bgQueue' = Append(bgQueue, Head(mainThread.todo))
    /\ unfinished_tasks' = unfinished_tasks + 1
    /\ mainThread' = [mainThread EXCEPT
                        !.todo = Tail(@),
                        !.pc = IF Len(mainThread.todo) > 1 THEN "put"
                               ELSE IF mainThread.terminating THEN "thread_join"
                               ELSE "idle"]
    /\ UNCHANGED <<silence_event, bgThread, piper_players, piper_player, cancels,
                   speaks, late_fate, nonq>>

\* _set_variant: the player of the new voice's sample rate becomes the active one
PiperSetVariant(sample_rate) ==
    /\ mainThread.pc = "idle"
    /\ sample_rate # piper_player
    /\ piper_players' = piper_get_or_create_player(piper_players, sample_rate)
    /\ piper_player' = sample_rate
    /\ UNCHANGED <<bgQueue, unfinished_tasks, silence_event, bgThread, mainThread,
                   cancels, speaks, late_fate, nonq>>

\* cancel(), or terminate() which begins with it: self._silence_event.set()
CancelCall(terminating) ==
    /\ mainThread.pc = "idle"
    /\ cancels < MaxCancels
    /\ cancels' = cancels + 1
    /\ silence_event' = TRUE
    /\ mainThread' = [mainThread EXCEPT !.pc = "stop", !.terminating = terminating,
                                        !.drained = 0]
    /\ UNCHANGED <<bgQueue, unfinished_tasks, bgThread, piper_players, piper_player,
                   speaks, late_fate, nonq>>

\* cancel(): self._player.stop()
CancelStop ==
    /\ mainThread.pc = "stop"
    /\ piper_players' = player_stop(piper_players, piper_player)
    /\ mainThread' = [mainThread EXCEPT !.pc = "drain"]
    /\ UNCHANGED <<bgQueue, unfinished_tasks, silence_event, bgThread, piper_player,
                   cancels, speaks, late_fate, nonq>>

\* cancel(): get_nowait() and task_done() until queue.Empty
CancelDrain ==
    /\ mainThread.pc = "drain"
    /\ IF bgQueue # << >>
       THEN /\ bgQueue' = Tail(bgQueue)
            /\ unfinished_tasks' = unfinished_tasks - 1
            /\ mainThread' = [mainThread EXCEPT !.drained = 1]
       ELSE /\ mainThread' = [mainThread EXCEPT !.pc = "put_done"]
            /\ UNCHANGED <<bgQueue, unfinished_tasks>>
    /\ UNCHANGED <<silence_event, bgThread, piper_players, piper_player, cancels,
                   speaks, late_fate, nonq>>

\* cancel(): self._bgQueue.put(DoneSpeaking(self._player, ...))
CancelPutDone ==
    /\ mainThread.pc = "put_done"
    /\ bgQueue' = Append(bgQueue, QTask("DoneSpeaking", piper_player, cancels, "cancel"))
    /\ unfinished_tasks' = unfinished_tasks + 1
    /\ mainThread' = [mainThread EXCEPT !.pc = "put_clear"]
    /\ UNCHANGED <<silence_event, bgThread, piper_players, piper_player, cancels,
                   speaks, late_fate, nonq>>

\* cancel(): self._bgQueue.put(self._silence_event.clear)
CancelPutClear ==
    /\ mainThread.pc = "put_clear"
    /\ bgQueue' = Append(bgQueue, QTask("clear", 0, cancels, "cancel"))
    /\ unfinished_tasks' = unfinished_tasks + 1
    /\ mainThread' = [mainThread EXCEPT !.pc = "join"]
    /\ UNCHANGED <<silence_event, bgThread, piper_players, piper_player, cancels,
                   speaks, late_fate, nonq>>

\* cancel(): self._bgQueue.join() returns once every task put is done; cancel()
\* returns, and terminate() goes on to put its tasks
CancelJoin ==
    /\ mainThread.pc = "join"
    /\ unfinished_tasks = 0
    /\ mainThread' = IF mainThread.terminating
                     THEN [mainThread EXCEPT !.pc = "put", !.todo = terminate_tasks]
                     ELSE [mainThread EXCEPT !.pc = "idle"]
    /\ UNCHANGED <<bgQueue, unfinished_tasks, silence_event, bgThread, piper_players,
                   piper_player, cancels, speaks, late_fate, nonq>>

\* terminate(): self._bgThread.join()
ThreadJoin ==
    /\ mainThread.pc = "thread_join"
    /\ bgThread.at = "dead"
    /\ mainThread' = [mainThread EXCEPT !.pc = "terminated"]
    /\ UNCHANGED <<bgQueue, unfinished_tasks, silence_event, bgThread, piper_players,
                   piper_player, cancels, speaks, late_fate, nonq>>

\* BgThread.run: task = self._bgQueue.get(); None ends the thread
BgGet ==
    /\ bgThread.at = "get"
    /\ bgQueue # << >>
    /\ bgQueue' = Tail(bgQueue)
    /\ bgThread' = IF Head(bgQueue).kind = "None"
                   THEN [bgThread EXCEPT !.at = "dead"]
                   ELSE [at |-> "call", task |-> Head(bgQueue), sent |-> 0]
    /\ UNCHANGED <<unfinished_tasks, silence_event, mainThread, piper_players,
                   piper_player, cancels, speaks, late_fate, nonq>>

\* the thread goes back to get() without task_done()
task_returns_undone ==
    /\ bgThread' = [at |-> "get", task |-> NoQTask, sent |-> 0]
    /\ UNCHANGED unfinished_tasks

\* BgThread.run: the task has returned or raised; self._bgQueue.task_done()
task_returns ==
    /\ bgThread' = [at |-> "get", task |-> NoQTask, sent |-> 0]
    /\ unfinished_tasks' = unfinished_tasks - 1

\* the thread is at this place of a task of this class
Running(kind, at) == bgThread.at = at /\ bgThread.task.kind = kind

\* ProcessSpeechTaskSayAll.__call__: if self.is_canceled(): return
SayAllCheck ==
    /\ Running("ProcessSpeechTaskSayAll", "call")
    /\ IF silence_event
       THEN task_returns
       ELSE bgThread' = [bgThread EXCEPT !.at = "stop"] /\ UNCHANGED unfinished_tasks
    /\ UNCHANGED <<bgQueue, silence_event, mainThread, piper_players, piper_player,
                   cancels, speaks, late_fate, nonq>>

\* ProcessSpeechTaskSayAll.__call__: self.player.stop()
SayAllStop ==
    /\ Running("ProcessSpeechTaskSayAll", "stop")
    /\ piper_players' = player_stop(piper_players, bgThread.task.player)
    /\ bgThread' = [bgThread EXCEPT !.at = "loop"]
    /\ UNCHANGED <<bgQueue, unfinished_tasks, silence_event, mainThread, piper_player,
                   cancels, speaks, late_fate, nonq>>

\* ProcessSpeechTaskSayAll.__call__, in the loop: if self.is_canceled(): break
SayAllLoop ==
    /\ Running("ProcessSpeechTaskSayAll", "loop")
    /\ IF silence_event
       THEN task_returns
       ELSE bgThread' = [bgThread EXCEPT !.at = "next"] /\ UNCHANGED unfinished_tasks
    /\ UNCHANGED <<bgQueue, silence_event, mainThread, piper_players, piper_player,
                   cancels, speaks, late_fate, nonq>>

\* ProcessSpeechTaskSayAll.__call__, in the loop: next(speech_iter) gives a chunk,
\* which is fed, or ends the stream, or raises
SayAllNext(res) ==
    /\ Running("ProcessSpeechTaskSayAll", "next")
    /\ IF res = "chunk"
       THEN /\ bgThread.sent < MaxQChunks
            /\ piper_players' = player_feed(piper_players, bgThread.task.player,
                                            chunk_of(bgThread.task))
            /\ bgThread' = [bgThread EXCEPT !.at = "loop", !.sent = @ + 1]
            /\ UNCHANGED unfinished_tasks
       ELSE /\ task_returns
            /\ UNCHANGED piper_players
    /\ UNCHANGED <<bgQueue, silence_event, mainThread, piper_player, cancels, speaks,
                   late_fate, nonq>>

\* ProcessBreakTask.__call__: if not self.is_canceled()
BreakCheck ==
    /\ Running("ProcessBreakTask", "call")
    /\ IF silence_event
       THEN task_returns
       ELSE bgThread' = [bgThread EXCEPT !.at = "feed"] /\ UNCHANGED unfinished_tasks
    /\ UNCHANGED <<bgQueue, silence_event, mainThread, piper_players, piper_player,
                   cancels, speaks, late_fate, nonq>>

\* ProcessBreakTask.__call__: self.player.feed(self.task.generate_audio())
BreakFeed ==
    /\ Running("ProcessBreakTask", "feed")
    /\ piper_players' = player_feed(piper_players, bgThread.task.player,
                                    chunk_of(bgThread.task))
    /\ task_returns
    /\ UNCHANGED <<bgQueue, silence_event, mainThread, piper_player, cancels, speaks,
                   late_fate, nonq>>

\* DoneSpeaking.__call__: if self.is_canceled()
DoneCheck ==
    /\ Running("DoneSpeaking", "call")
    /\ bgThread' = [bgThread EXCEPT !.at = IF silence_event THEN "stop" ELSE "idle"]
    /\ UNCHANGED <<bgQueue, unfinished_tasks, silence_event, mainThread, piper_players,
                   piper_player, cancels, speaks, late_fate, nonq>>

\* the chunks of the sink that were fed after cancel() had stopped it
late_chunks(p) == { c \in piper_players[p] : c.late }

\* the sink is left as it is
done_speaking_no_stop(ps, task) == ps

\* DoneSpeaking.__call__: self.player.stop()
done_speaking_stop(ps, task) == player_stop(ps, task.player)

DoneStop ==
    /\ Running("DoneSpeaking", "stop")
    /\ piper_players' = done_speaking_stop(piper_players, bgThread.task)
    /\ late_fate' = IF late_chunks(bgThread.task.player) # {} /\ piper_players'[bgThread.task.player] = {}
                    THEN late_fate \cup {"discarded"} ELSE late_fate
    /\ bgThread' = [bgThread EXCEPT !.at = "idle"]
    /\ UNCHANGED <<bgQueue, unfinished_tasks, silence_event, mainThread, piper_player,
                   cancels, speaks, nonq>>

\* DoneSpeaking.__call__: self.player.idle() returns when the sink has played what
\* it holds; then self.on_index_reached(None)
DoneIdle ==
    /\ Running("DoneSpeaking", "idle")
    /\ piper_players' = [piper_players EXCEPT ![bgThread.task.player] = {}]
    /\ late_fate' = IF late_chunks(bgThread.task.player) # {}
                    THEN late_fate \cup {"played"} ELSE late_fate
    /\ task_returns
    /\ UNCHANGED <<bgQueue, silence_event, mainThread, piper_player, cancels, speaks, nonq>>

\* self._silence_event.clear, run as a task
ClearEvent ==
    /\ Running("clear", "call")
    /\ silence_event' = FALSE
    /\ task_returns
    /\ UNCHANGED <<bgQueue, mainThread, piper_players, piper_player, cancels, speaks,
                   late_fate, nonq>>

\* player.close and self._players.clear, run as tasks
RunClose ==
    /\ \/ /\ Running("close", "call")
          /\ piper_players' = player_stop(piper_players, bgThread.task.player)
       \/ /\ Running("players_clear", "call")
          /\ piper_players' = << >>
    /\ task_returns
    /\ UNCHANGED <<bgQueue, silence_event, mainThread, piper_player, cancels, speaks,
                   late_fate, nonq>>

\* the steps of the caller thread inside speak(), cancel() and terminate()
MainRuns ==
    \/ QueuePut
    \/ CancelStop
    \/ CancelDrain
    \/ CancelPutDone
    \/ CancelPutClear
    \/ CancelJoin
    \/ ThreadJoin

\* the steps of the background thread
BgRuns ==
    \/ BgGet
    \/ SayAllCheck
    \/ SayAllStop
    \/ SayAllLoop
    \/ \E res \in {"chunk", "stop", "raise"} : SayAllNext(res)
    \/ BreakCheck
    \/ BreakFeed
    \/ DoneCheck
    \/ DoneStop
    \/ DoneIdle
    \/ ClearEvent
    \/ RunClose

QNext ==
    \/ \E seq \in QSeqs : PiperSpeak(seq)
    \/ \E sample_rate \in SampleRates : PiperSetVariant(sample_rate)
    \/ \E terminating \in BOOLEAN : CancelCall(terminating)
    \/ MainRuns
    \/ BgRuns

SpecQueue == Init /\ [][QNext]_vars

\* both threads go on running; the host need not call again
SpecQueueLive == Init /\ [][QNext]_vars /\ WF_vars(MainRuns) /\ WF_vars(BgRuns)

----------------------------------------------------------------------------
(* Properties of the compiler, under SpecCompile *)

Kinds(plan) == [k \in DOMAIN plan |-> plan[k].kind]

IsParam(item) == item.type \in {"RateCommand", "VolumeCommand", "PitchCommand"}

\* the options snapshot of the k-th task of the plan being handed over
Snapshot(k) == heap[speech_seq[k].task.speech_options]

RECURSIVE Concat(_)
Concat(ts) == IF ts = <<>> THEN <<>> ELSE Head(ts) \o Concat(Tail(ts))

RECURSIVE NewlineJoined(_)
NewlineJoined(ts) ==
    IF Len(ts) = 1 THEN ts[1] ELSE ts[1] \o <<"\n">> \o NewlineJoined(Tail(ts))

AllText(seq) == seq # <<>> /\ \A i \in DOMAIN seq : seq[i].type = "str"
TextsOf(seq) == [i \in DOMAIN seq |-> seq[i].text]

C5_PlanOrderMatchesInput ==
    (cpc = "submitted" /\ \A i \in DOMAIN in_seq : in_seq[i].type \in {"str", "IndexCommand"})
    => \A i, j \in DOMAIN in_seq :
          (i < j /\ in_seq[i].type = "IndexCommand" /\ in_seq[i].index # 0
                 /\ in_seq[j].type = "str" /\ in_seq[j].text # <<>>)
          => \E a, b \in DOMAIN speech_seq :
                /\ a < b
                /\ speech_seq[a].kind = "IndexReachedTask"
                /\ \E m \in DOMAIN speech_seq[a].index_list :
                      speech_seq[a].index_list[m] = in_seq[i].index
                /\ speech_seq[b].kind = "SpeechTask"

Apply(o, item) ==
    CASE item.type = "RateCommand" -> [o EXCEPT !.rate = Some(item.newValue)]
      [] item.type = "VolumeCommand" -> [o EXCEPT !.volume = Some(item.newValue)]
      [] item.type = "PitchCommand" -> [o EXCEPT !.pitch = Some(item.newValue)]

\* C6: a rate / volume / pitch change after a text changes the snapshot of the
\* SpeechTask compiled after it only: the snapshot of the SpeechTask compiled before
\* it is the options as they were, whatever directive follows the change
C6_SnapshotFrame ==
    (cpc = "submitted" /\ Len(in_seq) >= 2 /\ in_seq[1].type = "str"
        /\ in_seq[1].text # <<>> /\ IsParam(in_seq[2]))
    => /\ speech_seq[1].kind = "SpeechTask"
       /\ Snapshot(1) = entry_options
       /\ speech_seq[1].task.speech_options # live
       /\ (Len(in_seq) = 3 /\ in_seq[3].type = "str" /\ in_seq[3].text # <<>>)
             => /\ speech_seq[2].kind = "SpeechTask"
                /\ Snapshot(2) = Apply(entry_options, in_seq[2])
                /\ speech_seq[2].task.speech_options # speech_seq[1].task.speech_options

C6_Witness ==
    /\ cpc = "submitted"
    /\ in_seq = << Str(Hello_), RateCommand(80), Str(world) >>
    /\ Snapshot(1).rate = None
    /\ Snapshot(2).rate = Some(80)

\* C7 as stated: the plan that follows a plan spoken at RateCommand(80), compiled
\* from a sequence without a RateCommand, has SpeechTask snapshots with rate 80
C7_SessionSticky ==
    (cpc = "submitted" /\ last_rate = Some(80)
        /\ \A i \in DOMAIN in_seq : in_seq[i].type # "RateCommand")
    => \A k \in SpeechTasksOf(speech_seq) : Snapshot(k).rate = Some(80)

\* C7 amended: when speak() returns, the live options are again what they were when
\* it was entered, so the next plan's snapshots carry the rate in force before the
\* earlier plan and not the rate of its RateCommand
C7_RestoredOnReturn ==
    /\ (cpc = "idle" /\ outcome = "returned") => heap[live] = entry_options
    /\ (cpc = "submitted" /\ outcome = "returned"
           /\ \A i \in DOMAIN in_seq : in_seq[i].type # "RateCommand")
       => \A k \in SpeechTasksOf(speech_seq) : Snapshot(k).rate = entry_options.rate

C7_Witness ==
    /\ cpc = "submitted"
    /\ last_rate = Some(80)
    /\ in_seq = << Str(world) >>
    /\ Snapshot(1).rate = None

----------------------------------------------------------------------------
(* Properties of the scheduler, under Spec *)

\* C1: once cancel() has stopped the sink for a plan, no feed issued on behalf of
\* that plan reaches the sink, not even one already handed to the worker pool
C1_NoFeedAfterStop == late_feed = {}

\* the operation that ends a callable of that kind
completes(kind, op) ==
    IF kind \in {"SpeechTask", "BreakTask"} THEN op = "sync" ELSE op = "notify"

\* C2: the callables of a plan run strictly in plan order: while the task is at its
\* i-th callable every work item of the plan in the pool belongs to that callable,
\* nothing was done yet for a later one, and if the last engine, sink or host
\* operation of the plan belongs to an earlier callable, it is the one before and
\* the operation is the one that ends it (the sync after the last feed of a
\* SpeechTask or BreakTask, the report of an IndexReachedTask)
C2_StrictPlanOrder ==
    \A t \in Tasks :
        tasks[t].st = "pending" =>
            /\ \A n \in DOMAIN pool : pool[n].t = t => pool[n].k = tasks[t].i
            /\ last_op[t].k <= tasks[t].i
            /\ (last_op[t].k >= 1 /\ last_op[t].k < tasks[t].i) =>
                   /\ last_op[t].k = tasks[t].i - 1
                   /\ completes(tasks[t].speech_seq[last_op[t].k].kind, last_op[t].op)

\* a plan whose SpeechTask was sent to the engine and has ended is at its BreakTask,
\* the silence of which has reached the sink
C2_Witness ==
    \E t \in Tasks :
        /\ tasks[t].st = "pending"
        /\ tasks[t].i = 2
        /\ tasks[t].speech_seq[1].kind = "SpeechTask"
        /\ ~ignorable(tasks[t].speech_seq[1].task.text)
        /\ tasks[t].speech_seq[2].kind = "BreakTask"
        /\ last_op[t] = [k |-> 2, op |-> "feed"]
        /\ sink[tasks[t].speech_seq[2].player] = << t >>

\* C8: a plan in which a callable raised an error other than cancellation goes on
\* with its next callable: it does not end before its last callable
C8_ProceedsAfterError ==
    \A t \in Tasks : tasks[t].failed => tasks[t].i = tasks[t].n

----------------------------------------------------------------------------
(* Properties of the supervisor, under SpecSup *)

C10_OneEngineAfterStart ==
    (started # <<>> /\ started[Len(started)].ret) =>
        /\ live_processes(processes) = 1
        /\ gprocess \in DOMAIN processes
        /\ processes[gprocess].running
        /\ processes[gprocess].port = gport

\* C11: a terminate() that follows a terminate() raises no error and changes no state
C11_SecondTerminateNoOp ==
    Len(terminated) = 2 =>
        /\ terminated[2].error = "none"
        /\ ~terminated[2].changed

\* C12: a live channel targets the recorded engine port: initialize() while a channel
\* is live leaves the recorded port alone
C12_LiveChannelTargetsPort == channel # 0 => channel = gport

----------------------------------------------------------------------------
(* More properties of the scheduler, under Spec *)

\* the notifications of markers among the notifications sent to the host
Markers == { a \in DOMAIN reported : reported[a].index # None }

\* C14: the markers of a plan are reported in the order of the input (the sequences
\* of RunSeqs number their markers by position, so in increasing order), and one at
\* a time: the pool never holds two notifications of one plan
C14_MarkersInInputOrder ==
    /\ \A a, b \in Markers :
            (a < b /\ reported[a].t = reported[b].t)
            => reported[a].index[1] < reported[b].index[1]
    /\ \A x, y \in DOMAIN pool :
            (pool[x].fn = "notify" /\ pool[y].fn = "notify" /\ pool[x].t = pool[y].t)
            => x = y

\* a plan has reported marker 1 and then marker 2
C14_Witness ==
    \E a, b \in Markers :
        /\ a < b
        /\ reported[a].t = reported[b].t
        /\ reported[a].index = Some(1)
        /\ reported[b].index = Some(2)

\* how many notifications of the plan the host has got, how many work items of the
\* plan the pool holds
reports_of(r, t) == Cardinality({ a \in DOMAIN r : r[a].t = t })
items_of(pl, t) == Cardinality({ n \in DOMAIN pl : pl[n].t = t })

\* C20: once a plan has observed the cancellation (its task is cancelled) no step
\* gives the pool another work item of it, asks the engine for another chunk of it,
\* or sends the host another marker or done notification of it
C20_NothingAfterCancelled ==
    [][\A t \in Tasks :
          tasks[t].st = "cancelled" =>
              /\ tasks'[t] = tasks[t]
              /\ items_of(pool', t) <= items_of(pool, t)
              /\ reports_of(reported', t) = reports_of(reported, t)]_vars

\* the plan runs and has taken its first step
stepped(t) == tasks[t].st = "pending" /\ tasks[t].at # "start"

\* C18: when a new plan has taken its first step, the plans before it have observed
\* the cancellation or have finished, and no work item of theirs is left in the pool
C18_OnePlanAtATime ==
    \A t, u \in Tasks :
        (t < u /\ stepped(u)) =>
            /\ tasks[t].st \in {"cancelled", "finished"}
            /\ items_of(pool, t) = 0

----------------------------------------------------------------------------
(* Properties of the loading, under SpecLoad *)

----------------------------------------------------------------------------
(* Properties of the shutdown, under SpecShutdown *)

\* C19: no feed of a closed player is left in the pool: none was executing when the
\* player was closed and none is issued to it afterwards
C19_NoFeedOnClosedSink ==
    \A n \in DOMAIN pool : pool[n].fn = "feed" => pool[n].player \notin closed

\* the done notifications among the notifications sent to the host
Dones == { a \in DOMAIN reported : reported[a].index = None }

\* C21: a plan's done notification is handed to the pool only when player.idle has
\* returned (idle is the plan's last operation and no chunk of the plan is in a
\* sink), none of the plan's audio is in a sink once it is sent, and the host gets
\* at most one per plan
C21_DoneAfterIdleOnce ==
    /\ \A n \in DOMAIN pool :
            (pool[n].fn = "notify" /\ pool[n].index = None) =>
                /\ tasks[pool[n].t].st = "pending" => last_op[pool[n].t].op = "idle"
                /\ \A m \in DOMAIN pool :
                        pool[m].t = pool[n].t => pool[m].fn \notin {"idle", "feed", "sync"}
                /\ \A p \in DOMAIN sink : \A x \in DOMAIN sink[p] : sink[p][x] # pool[n].t
    /\ \A a \in Dones :
            \A p \in DOMAIN sink : \A x \in DOMAIN sink[p] : sink[p][x] # reported[a].t
    /\ \A a, b \in Dones : reported[a].t = reported[b].t => a = b

\* a plan that reported a marker has run to its end and sent its done notification
C21_Witness ==
    \E a \in Dones :
        /\ tasks[reported[a].t].st = "finished"
        /\ \E b \in Markers : b < a /\ reported[b].t = reported[a].t

\* C22: a step of a task on the loop thread performs no operation on a sink (the
\* sinks change only by what the workers and the caller thread do)
C22_LoopLeavesSinkAlone ==
    [][(ready # <<>> /\ Head(ready).cb = "step" /\ ready' = Tail(ready))
          => sink' = sink]_vars

----------------------------------------------------------------------------
(* More properties of the compiler, under SpecCompile *)

\* the sample rate of the voice an audio-producing task was compiled for
voice_rate(h, task) ==
    IF task.kind = "SpeechTask"
    THEN Voices[h[task.task.speech_options].voice].sample_rate
    ELSE task.task.sample_rate

\* C16: every SpeechTask and BreakTask of a plan holds the sink of the sample rate of
\* the voice it was compiled for, also after a LangChangeCommand
C16_SinkMatchesVoice ==
    cpc = "submitted" =>
        \A k \in DOMAIN speech_seq :
            speech_seq[k].kind \in {"SpeechTask", "BreakTask"} =>
                speech_seq[k].player = voice_rate(heap, speech_seq[k])

\* the BreakCommands among the first q directives, the BreakTasks among the first j tasks
breaks_upto(seq, q) == Cardinality({ x \in 1..q : seq[x].type = "BreakCommand" })
break_tasks_upto(plan, j) == Cardinality({ x \in 1..j : plan[x].kind = "BreakTask" })

\* C15: a marker (other than 0) in front of a BreakCommand is in an IndexReachedTask
\* that stands in the plan before the BreakTask of that BreakCommand
C15_MarkerBeforeNextAudio ==
    cpc = "submitted" =>
        \A p, q \in DOMAIN in_seq :
            ( /\ p < q
              /\ in_seq[p].type = "IndexCommand"
              /\ in_seq[p].index # 0
              /\ in_seq[q].type = "BreakCommand" )
            => \E i, j \in DOMAIN speech_seq :
                  /\ i < j
                  /\ speech_seq[i].kind = "IndexReachedTask"
                  /\ \E x \in DOMAIN speech_seq[i].index_list :
                        speech_seq[i].index_list[x] = in_seq[p].index
                  /\ speech_seq[j].kind = "BreakTask"
                  /\ break_tasks_upto(speech_seq, j) = breaks_upto(in_seq, q)

\* C29: whenever speak() has ended, by returning or by raising, the live options are
\* again what they were when it was entered
C29_RestoredOnEveryExit ==
    (cpc = "idle" /\ outcome \in {"returned", "raised"}) => heap[live] = entry_options

\* C30: every marker of the sequence, whatever its value, is in an IndexReachedTask
\* of the plan
C30_EveryMarkerPlanned ==
    cpc = "submitted" =>
        \A p \in DOMAIN in_seq :
            in_seq[p].type = "IndexCommand" =>
                \E i \in DOMAIN speech_seq :
                    /\ speech_seq[i].kind = "IndexReachedTask"
                    /\ \E x \in DOMAIN speech_seq[i].index_list :
                          speech_seq[i].index_list[x] = in_seq[p].index

----------------------------------------------------------------------------
(* Properties of the generated silence, under SpecSilence *)

\* C17: a break of t milliseconds at sample rate r generates floor(t*r/1000) zero
\* 16-bit frames, that is 2*floor(t*r/1000) zero bytes
C17_SilenceFrames ==
    (silence # None /\ silence[1].audio # None) =>
        silence[1].audio[1].zero_bytes
            = 2 * ((silence[1].task.time_ms * silence[1].task.sample_rate) \div 1000)

----------------------------------------------------------------------------
(* Properties of the voice registry, under SpecVoices *)

endswith(s, suffix) == Len(suffix) <= Len(s) /\ has_at(s, suffix, Len(s) - Len(suffix) + 1)

\* a key <language>-<name>-<quality>[+RT]: three parts, the mark at the end or nowhere
documented_form(key) ==
    LET base == IF endswith(key, RT) THEN SubSeq(key, 1, Len(key) - Len(RT)) ELSE key
    IN  Len(split(base, "-")) = 3 /\ ~contains(base, RT)

\* a key <language>-<name>[+RT]-<quality>: three parts, the mark behind the name or nowhere
marked_name_form(key) ==
    LET parts == split(key, "-")
    IN  /\ Len(parts) = 3
        /\ ~contains(parts[1], RT) /\ ~contains(parts[3], RT)
        /\ ~contains(IF endswith(parts[2], RT)
                     THEN SubSeq(parts[2], 1, Len(parts[2]) - Len(RT)) ELSE parts[2], RT)

\* the keys of a voice agree with its own key
own_key_consistent(key) ==
    /\ ~is_fast(key) => standard_variant_key(key) = key
    /\ is_fast(key) => fast_variant_key(key) = key

\* C28 as stated: every voice of the registry whose directory name is
\* <language>-<name>-<quality>[+RT] has its own key as the standard key (a standard
\* voice) or as the fast key (a fast voice), and a standard and a fast voice of
\* the same <language>-<name>-<quality> compute the same pair of keys
C28_DocumentedFormConsistent ==
    \A i \in DOMAIN voices :
        documented_form(voices[i].key) =>
            /\ own_key_consistent(voices[i].key)
            /\ \A j \in DOMAIN voices :
                   (/\ documented_form(voices[j].key)
                    /\ voices[j].key = voices[i].key \o RT) =>
                       get_voice_variants(voices[j].key) = get_voice_variants(voices[i].key)

\* C28, amended: every voice of the registry whose directory name is
\* <language>-<name>[+RT]-<quality> has its own key as the standard key (a standard
\* voice) or as the fast key (a fast voice), and the standard and the fast voice
\* of a pair compute the same pair of keys
C28_MarkedNameConsistent ==
    \A i \in DOMAIN voices :
        marked_name_form(voices[i].key) =>
            /\ own_key_consistent(voices[i].key)
            /\ \A j \in DOMAIN voices :
                   (/\ marked_name_form(voices[j].key)
                    /\ ~is_fast(voices[i].key) /\ is_fast(voices[j].key)
                    /\ split(voices[j].key, "-") =
                           [split(voices[i].key, "-") EXCEPT ![2] = @ \o RT]) =>
                       get_voice_variants(voices[j].key) = get_voice_variants(voices[i].key)

\* a standard and a fast voice of one pair are in the registry, and the variant
\* setter has gone from one to the other
C28_Witness ==
    /\ last_set # None
    /\ last_set[1].op = "variant"
    /\ last_set[1].voice_before = VoiceDirs[2]
    /\ last_set[1].voice_after = VoiceDirs[1]

\* C23: a voice directory that is there without its *.json is skipped by the
\* enumeration and is not fatal: the registry of a constructed driver holds
\* exactly the voices of the complete directories with a voice name, and no
\* construction fails
C23_IncompleteDirectorySkipped ==
    /\ synth.phase # "failed"
    /\ synth.phase \in {"available", "terminated"} =>
        /\ \A i \in DOMAIN voices : voice_dirs[voices[i].dir] = "ok"
        /\ \A d \in DOMAIN VoiceDirs :
               (voice_dirs[d] = "ok" /\ from_path(VoiceDirs[d]) # None) =>
                   \E i \in DOMAIN voices : voices[i].dir = d

\* the last setter left the live voice and its speaker as they were
left_unchanged ==
    /\ last_set[1].voice_after = last_set[1].voice_before
    /\ last_set[1].speaker_after = last_set[1].speaker_before

\* C24: setting a voice key that no voice of the registry has, or a speaker name
\* that the live voice has not and that is not the fallback name, raises
\* VoiceNotFoundError or SpeakerNotFoundError to the caller and leaves the live
\* voice and speaker unchanged
C24_AbsentSelectionRaises ==
    (synth.phase = "available" /\ last_set # None) =>
        /\ (/\ last_set[1].op = "voice"
            /\ last_set[1].asked \notin DOMAIN synth.standard_voice_map) =>
                last_set[1].raised = "VoiceNotFoundError" /\ left_unchanged
        /\ (/\ last_set[1].op = "speaker"
            /\ last_set[1].asked # FALLBACK_SPEAKER_NAME
            /\ \A x \in DOMAIN voices[synth.voice].speakers :
                   voices[synth.voice].speakers[x] # last_set[1].asked) =>
                last_set[1].raised = "SpeakerNotFoundError" /\ left_unchanged

\* C25: load() is idempotent: a voice with a remote id has had one LoadVoice
\* request and a voice without one none, and no step changes the remote id, the
\* sample rate or the speakers of a voice that has a remote id
C25_LoadOnce ==
    [][\A i \in DOMAIN voices' :
          /\ voices'[i].loads = IF voices'[i].remote_id = None THEN 0 ELSE 1
          /\ (i \in DOMAIN voices /\ voices[i].remote_id # None) =>
                /\ voices'[i].remote_id = voices[i].remote_id
                /\ voices'[i].sample_rate = voices[i].sample_rate
                /\ voices'[i].speakers = voices[i].speakers]_vars

\* the voice setter has set the live voice again, which load() had loaded
\* before, while another voice is loaded too
C25_Witness ==
    /\ last_set # None
    /\ last_set[1].op = "voice"
    /\ last_set[1].raised = "none"
    /\ last_set[1].voice_after = last_set[1].voice_before
    /\ \E i \in DOMAIN voices : i # synth.voice /\ voices[i].remote_id # None

\* C26: the player pool holds at most one sink per sample rate: before the
\* shutdown no two WavePlayers were created for one rate, _players holds each
\* of them under its rate, the player in use is one of them and all are open;
\* after the shutdown _players is empty and all are closed
C26_OneSinkPerRate ==
    /\ synth.phase = "available" =>
        /\ \A m, n \in DOMAIN wave_players :
               wave_players[m].rate = wave_players[n].rate => m = n
        /\ \A n \in DOMAIN wave_players :
               /\ wave_players[n].open
               /\ wave_players[n].rate \in DOMAIN synth.players
               /\ synth.players[wave_players[n].rate] = n
        /\ \A r \in DOMAIN synth.players : synth.players[r] \in DOMAIN wave_players
        /\ synth.player \in DOMAIN wave_players
    /\ synth.phase = "terminated" =>
        /\ synth.players = << >>
        /\ \A n \in DOMAIN wave_players : ~wave_players[n].open

\* two sinks were created, and a change of the voice has gone back to the first
C26_Witness ==
    /\ synth.phase = "available"
    /\ Len(wave_players) = 2
    /\ synth.player = 1
    /\ last_set # None
    /\ last_set[1].voice_after # last_set[1].voice_before

----------------------------------------------------------------------------
(* More properties of the loading, under SpecLoad *)

\* C27: every wait of the driver's construction on the engine has a deadline:
\* also when the engine never answers, __init__ does not stay blocked but ends
\* with the driver available or unavailable
C27_ConstructionWaitsBounded == driver # "blocked"

----------------------------------------------------------------------------
(* More properties of the voice registry, under SpecVoices *)

\* C32: after every selection of a voice or a variant the player in use is the
\* player that _players holds for the sample rate of the live voice
C32_PlayerOfLiveVoice ==
    synth.phase = "available" =>
        LET sample_rate == voices[synth.voice].sample_rate[1]
        IN  /\ sample_rate \in DOMAIN synth.players
            /\ synth.player = synth.players[sample_rate]

----------------------------------------------------------------------------
(* Properties of the rate, under SpecRate *)

\* C35: the rate that is read lies in 0..100 and reading it does not change
\* the options; without rate boost a rate that was set is read back as it was
\* set; after the rate boost was switched the rate reads as it read before
C35_RateRoundTrip ==
    (rate_op # None /\ rate_op[1].op = "get") =>
        /\ rate_op[1].val \in 0..MaxPercent
        /\ ~rate_op[1].changed
        /\ (rate_op[1].prev_op = "set" /\ ~rateBoost) => rate_op[1].val = rate_op[1].prev_val
        /\ rate_op[1].prev_op = "boost" => rate_op[1].val = rate_op[1].prev_val

----------------------------------------------------------------------------
(* Properties of a called SpeechTask, under SpecSynth *)

\* the request carries every field that the options of the task hold
carries(request, o) ==
    LET args == request.speech_args
    IN  /\ o.rate # None => (args # None /\ args[1].rate = o.rate)
        /\ o.volume # None => (args # None /\ args[1].volume = o.volume)
        /\ o.pitch # None => (args # None /\ args[1].pitch = o.pitch)
        /\ o.sentence_silence_ms # None =>
               (args # None /\ args[1].appended_silence_ms = o.sentence_silence_ms)

\* a text of less than ten characters that is empty or ignored punctuation once stripped
C36_ignored(text) ==
    /\ Len(text) < 10
    /\ \A n \in DOMAIN strip(text) : strip(text)[n] \in IGNORED_PUNCS

\* C36: a called SpeechTask with such a text has sent no request and fed no
\* audio, and its call has ended; with any other text it has sent exactly one
\* request, which carries the rate, volume, pitch and sentence silence of the
\* task's options
C36_IgnoredOrOneRequest ==
    (utterance # None /\ utterance[1].called) =>
        IF C36_ignored(utterance[1].task.text)
        THEN /\ utterance[1].requests = << >>
             /\ utterance[1].fed = 0
             /\ utterance[1].synced
        ELSE /\ Len(utterance[1].requests) = 1
             /\ carries(utterance[1].requests[1], utterance[1].task.speech_options)

----------------------------------------------------------------------------
(* Progress of the scheduler, under SpecLive *)

\* the done notification of the plan has been sent
done_reported(t) == \E a \in Dones : reported[a].t = t

\* C31: every plan that runs comes to an end, and every plan that runs is
\* cancelled or has its done notification sent, whatever its tasks do
C31_PlanEndsAndReportsDone ==
    \A t \in Tasks :
        /\ (tasks[t].st = "pending") ~> (tasks[t].st # "pending")
        /\ (tasks[t].st = "pending") ~> (t \in stopped \/ done_reported(t))

----------------------------------------------------------------------------
(* Properties of the queue-based driver, under SpecQueueLive and SpecQueue *)

\* the caller is inside cancel()
InCancel == mainThread.pc \in {"stop", "drain", "put_done", "put_clear", "join"}

\* join() is about to return: cancel() returns in this state
AtCancelReturn == mainThread.pc = "join" /\ unfinished_tasks = 0

\* the tasks that speak() has put and that have not returned
SpeakTasksLeft ==
    { t \in { bgQueue[i] : i \in DOMAIN bgQueue } \cup {bgThread.task} : t.of = "speak" }

\* C33: when cancel() returns the queue is empty, the background thread waits for
\* a task and the event is clear; while the event is set the caller is inside
\* cancel() and every task of speak() still there was put before that call, so a
\* task put after cancel() returned never finds the event set; and a call of
\* cancel() returns
C33_CancelReturnsClean ==
    /\ [](AtCancelReturn =>
            bgQueue = << >> /\ bgThread.at = "get" /\ ~silence_event)
    /\ [](silence_event =>
            InCancel /\ \A t \in SpeakTasksLeft : t.epoch < cancels)
    /\ (InCancel ~> ~InCancel)

\* a cancel() that discarded tasks of the queue is about to return
C33_Witness == AtCancelReturn /\ mainThread.drained = 1 /\ speaks > 0

\* C34: when cancel() returns the active sink holds no chunk of a task put before
\* the call, and a chunk fed after cancel() stopped the sink is never played:
\* DoneSpeaking stops the sink before it waits for it
C34_NoOldAudioAfterCancel ==
    /\ AtCancelReturn => \A c \in piper_players[piper_player] : c.epoch >= cancels
    /\ "played" \notin late_fate

\* cancel() is about to return after a late chunk was discarded by DoneSpeaking
C34_Witness == AtCancelReturn /\ "discarded" \in late_fate

====
